---- MODULE Spec2Model ----
(***************************************************************************)
(* A model of the in-memory graph store (MemoryGraph, memory.go) and of    *)
(* the modification helpers built on it (modification.go).                 *)
(*                                                                         *)
(* The store is a vertex table and two adjacency indexes guarded by one    *)
(* sync.RWMutex.  Every public method takes the lock for its whole body,    *)
(* so one method call is one action; the iterators (DownstreamNeighbors,    *)
(* UpstreamNeighbors) hold the read lock from their first element to their  *)
(* return, so a loop over one is a sequence of actions with mu.readers > 0. *)
(*                                                                         *)
(* Go maps: a missing bucket (outEdges[k] absent) and an empty bucket       *)
(* behave alike for len, lookup, range and delete, so the indexes are kept  *)
(* as total functions over Keys whose buckets may be empty.                 *)
(***************************************************************************)
EXTENDS Integers, Sequences, FiniteSets, TLC

\* Vertex keys are 1..MaxKey.
MaxKey == 3
\* The largest weight an option sets.
MaxWeight == 1
\* The longest batch handed to AddVertices / AddEdges.
MaxBatch == 2
\* AddEdge / AddEdges are not called once edgeCount would pass MaxSize.
MaxSize == 3
\* The goroutines that call the store concurrently are 1..MaxThread.
MaxThread == 2

Keys == 1..MaxKey
Weights == 0..MaxWeight
Threads == 1..MaxThread

VARIABLES
    traits,     \* MemoryGraph.traits
    vertices,   \* MemoryGraph.vertices : key -> Vertex
    outEdges,   \* MemoryGraph.outEdges : source -> target -> Edge
    inEdges,    \* MemoryGraph.inEdges  : target -> source -> Edge
    edgeCount,  \* MemoryGraph.edgeCount
    mu,         \* MemoryGraph.mu : readers holding RLock, writer holding Lock
    op,         \* the last method that returned
    err,        \* what it returned
    pc,         \* where the caller of a modification helper stands
    frame,      \* the helper's locals
    threads     \* the goroutines calling the store concurrently: thread -> call in progress

store == <<traits, vertices, outEdges, inEdges, edgeCount>>
graph == <<vertices, outEdges, inEdges, edgeCount>>
caller == <<mu, pc, frame, threads>>
vars == <<traits, vertices, outEdges, inEdges, edgeCount, mu, op, err, pc, frame, threads>>

Nil == "nil"
NoEdge == [Source |-> 0, Target |-> 0, Weight |-> 0]
EmptyMap == [x \in {} |-> 0]
NoFrame == [fn |-> "none"]
\* A goroutine that is in no call of the store.
Idle == [fn |-> "none", pc |-> "idle", a |-> 0, b |-> 0, w |-> 0,
         res |-> Nil, rest |-> <<{}, {}>>, got |-> <<{}, {}>>, e |-> NoEdge, seen |-> {}]

\* m[k] = v, as a Go map assignment.
Put(m, k, v) == [x \in (DOMAIN m) \cup {k} |-> IF x = k THEN v ELSE m[x]]
\* delete(m, k)
Delete(m, k) == [x \in (DOMAIN m) \ {k} |-> m[x]]

\* IntHash: the key of an int vertex is the int.
Hash(v) == v

Vertex(value, weight) == [Value |-> value, Weight |-> weight]
Edge(source, target, weight) == [Source |-> source, Target |-> target, Weight |-> weight]

\* A set as a sequence, in some order (the order of a Go map range is not fixed;
\* the callers below do not depend on it).
RECURSIVE SetToSeq(_)
SetToSeq(S) ==
    IF S = {} THEN <<>>
    ELSE LET x == CHOOSE y \in S : TRUE IN <<x>> \o SetToSeq(S \ {x})

----------------------------------------------------------------------------
\* Construction.

NewMemoryGraph(directed, preventCycles) ==
    /\ traits = [IsDirected |-> directed, PreventCycles |-> preventCycles,
                 IsVerticesWeighted |-> FALSE, IsEdgesWeighted |-> FALSE]
    /\ vertices = EmptyMap
    /\ outEdges = [k \in Keys |-> EmptyMap]
    /\ inEdges = [k \in Keys |-> EmptyMap]
    /\ edgeCount = 0
    /\ mu = [readers |-> 0, writer |-> FALSE]
    /\ op = "NewMemoryGraph"
    /\ err = Nil
    /\ pc = "idle"
    /\ frame = NoFrame
    /\ threads = [t \in Threads |-> Idle]

\* mu.Lock() returns only when nobody holds the lock; the method's deferred
\* Unlock releases it before the method returns, so mu is unchanged by the call.
\* A Lock that waits for the readers to leave but not for another writer.
CanLockShared == mu.readers = 0

CanLock == mu.readers = 0 /\ ~mu.writer
\* A goroutine that has called mu.Lock() and waits for the readers to leave:
\* sync.RWMutex admits no new reader from then on.
WriterWaiting == \E t \in Threads : threads[t].pc = "Lock"
\* An RLock that waits for nobody.
CanRLockUnguarded == TRUE

\* mu.RLock() returns only when no writer holds the lock or waits for it.
CanRLock == ~mu.writer /\ ~WriterWaiting

Returns(name, e) == op' = name /\ err' = e

----------------------------------------------------------------------------
\* Lookups that assume the lock is held.

\* MemoryGraph.edge over given indexes
edgeIn(out, source, target) ==
    IF target \in DOMAIN out[source] THEN out[source][target]
    ELSE IF ~traits.IsDirected /\ source \in DOMAIN out[target] THEN out[target][source]
    ELSE NoEdge

edge(source, target) == edgeIn(outEdges, source, target)

\* The loop of createsCycle: an explicit stack and a visited set, walking the
\* in-edge index (and the out-edge index of an undirected graph) back from source.
RECURSIVE cycleLoop(_, _, _, _, _)
cycleLoop(out, in, stack, visited, target) ==
    IF stack = <<>> THEN FALSE
    ELSE LET currentHash == stack[Len(stack)]
             rest == SubSeq(stack, 1, Len(stack) - 1)
         IN IF currentHash \in visited THEN cycleLoop(out, in, rest, visited, target)
            ELSE IF currentHash = target THEN TRUE
            ELSE cycleLoop(out, in,
                     rest \o SetToSeq(DOMAIN in[currentHash])
                          \o (IF ~traits.IsDirected
                              THEN SetToSeq(DOMAIN out[currentHash]) ELSE <<>>),
                     visited \cup {currentHash}, target)

\* A cycle test that looks at the direct predecessors of source only.
createsCycleDirect(out, in, source, target) ==
    source = target \/ target \in DOMAIN in[source]

createsCycleIn(out, in, source, target) ==
    IF source = target THEN TRUE
    ELSE cycleLoop(out, in, <<source>>, {}, target)

createsCycle(source, target) == createsCycleIn(outEdges, inEdges, source, target)

----------------------------------------------------------------------------
\* Vertex operations.

\* AddVertex(value, VertexWeight(weight))
AddVertex(value, weight) ==
    LET k == Hash(value) IN
    /\ CanLock
    /\ traits' = IF ~traits.IsVerticesWeighted /\ weight # 0
                 THEN [traits EXCEPT !.IsVerticesWeighted = TRUE] ELSE traits
    /\ IF k \in DOMAIN vertices
       THEN /\ Returns("AddVertex", "VertexAlreadyExists")
            /\ UNCHANGED graph
       ELSE /\ vertices' = Put(vertices, k, Vertex(value, weight))
            /\ Returns("AddVertex", Nil)
            /\ UNCHANGED <<outEdges, inEdges, edgeCount>>

\* The first loop of AddVertices: the index of the first item whose key is
\* taken, or 0.
RECURSIVE firstTaken(_, _)
firstTaken(values, i) ==
    IF i > Len(values) THEN 0
    ELSE IF Hash(values[i].Value) \in DOMAIN vertices THEN i
    ELSE firstTaken(values, i + 1)

\* vs after the first loop: vs[k] = &Vertex{Value: value.Value}, the item's
\* properties not copied; a later item of the same key overwrites an earlier.
RECURSIVE collect(_, _, _)
collect(values, i, vs) ==
    IF i > Len(values) THEN vs
    ELSE collect(values, i + 1, Put(vs, Hash(values[i].Value), Vertex(values[i].Value, 0)))

\* AddVertices(values): values a sequence of Vertex
AddVertices(values) ==
    /\ CanLock
    /\ IF firstTaken(values, 1) # 0
       THEN /\ Returns("AddVertices", "VertexAlreadyExists")
            /\ UNCHANGED store
       ELSE LET vs == collect(values, 1, EmptyMap) IN
            /\ vertices' = [k \in (DOMAIN vertices) \cup (DOMAIN vs) |->
                              IF k \in DOMAIN vs
                              THEN Vertex(vs[k].Value, vs[k].Weight)
                              ELSE vertices[k]]
            /\ Returns("AddVertices", Nil)
            /\ UNCHANGED <<traits, outEdges, inEdges, edgeCount>>

\* UpdateVertex(hash, option): the option sets Value and Weight of the stored
\* vertex through the pointer the table holds, before the key is compared.
UpdateVertex(hash, value, weight) ==
    /\ CanLock
    /\ IF hash \notin DOMAIN vertices
       THEN /\ Returns("UpdateVertex", "VertexNotFound")
            /\ UNCHANGED store
       ELSE /\ vertices' = [vertices EXCEPT ![hash] = Vertex(value, weight)]
            /\ Returns("UpdateVertex",
                       IF Hash(value) # hash THEN "UpdateChangedKey" ELSE Nil)
            /\ UNCHANGED <<traits, outEdges, inEdges, edgeCount>>

\* count of RemoveVertex
edgesOf(hash) ==
    Cardinality(DOMAIN outEdges[hash])
      + (IF traits.IsDirected THEN Cardinality(DOMAIN inEdges[hash]) ELSE 0)

RemoveVertex(hash) ==
    /\ CanLock
    /\ IF hash \notin DOMAIN vertices
       THEN /\ Returns("RemoveVertex", "VertexNotFound")
            /\ UNCHANGED store
       ELSE IF edgesOf(hash) > 0
       THEN /\ Returns("RemoveVertex", "VertexHasEdges")
            /\ UNCHANGED store
       ELSE /\ vertices' = Delete(vertices, hash)
            /\ outEdges' = [outEdges EXCEPT ![hash] = EmptyMap]
            /\ inEdges' = [inEdges EXCEPT ![hash] = EmptyMap]
            /\ Returns("RemoveVertex", Nil)
            /\ UNCHANGED <<traits, edgeCount>>

----------------------------------------------------------------------------
\* Edge operations.

\* The checks AddEdge and the first loop of AddEdges make on one edge against
\* the stored graph, in the code's order; Nil when the edge passes.
\* The checks of AddEdge without the cycle test.
validateWithoutCycles(source, target) ==
    IF source \notin DOMAIN vertices THEN "VertexNotFound"
    ELSE IF target \notin DOMAIN vertices THEN "VertexNotFound"
    ELSE IF edge(source, target) # NoEdge THEN "EdgeAlreadyExists"
    ELSE Nil

validate(source, target) ==
    IF source \notin DOMAIN vertices THEN "VertexNotFound"
    ELSE IF target \notin DOMAIN vertices THEN "VertexNotFound"
    ELSE IF edge(source, target) # NoEdge THEN "EdgeAlreadyExists"
    ELSE IF traits.PreventCycles /\ createsCycle(source, target) THEN "EdgeCausesCycle"
    ELSE Nil

\* The assignments to both indexes that store one edge.
insertOut(out, e) == [out EXCEPT ![e.Source] = Put(out[e.Source], e.Target, e)]
insertIn(in, e) == [in EXCEPT ![e.Target] = Put(in[e.Target], e.Source, e)]

\* AddEdge(sourceHash, targetHash, EdgeWeight(weight))
AddEdge(sourceHash, targetHash, weight) ==
    LET e == Edge(sourceHash, targetHash, weight)
        r == validate(sourceHash, targetHash)
    IN
    /\ CanLock
    /\ traits' = IF ~traits.IsEdgesWeighted /\ weight # 0
                 THEN [traits EXCEPT !.IsEdgesWeighted = TRUE] ELSE traits
    /\ Returns("AddEdge", r)
    /\ IF r # Nil
       THEN UNCHANGED graph
       ELSE /\ outEdges' = insertOut(outEdges, e)
            /\ inEdges' = insertIn(inEdges, e)
            /\ edgeCount' = edgeCount + 1
            /\ UNCHANGED vertices

\* The first loop of AddEdges: what the first rejected item returns, or Nil.
\* Every item is checked against the stored graph, which the loop does not change.
RECURSIVE validateAll(_, _)
validateAll(edges, i) ==
    IF i > Len(edges) THEN Nil
    ELSE LET r == validate(edges[i].Source, edges[i].Target) IN
         IF r # Nil THEN r ELSE validateAll(edges, i + 1)

\* The second loop of AddEdges: every item stored in turn, the count raised
\* once per item.
RECURSIVE commitOut(_, _, _)
commitOut(edges, i, out) ==
    IF i > Len(edges) THEN out ELSE commitOut(edges, i + 1, insertOut(out, edges[i]))

RECURSIVE commitIn(_, _, _)
commitIn(edges, i, in) ==
    IF i > Len(edges) THEN in ELSE commitIn(edges, i + 1, insertIn(in, edges[i]))

\* The number of leading items of edges that pass validate.
RECURSIVE validPrefix(_, _)
validPrefix(edges, i) ==
    IF i > Len(edges) \/ validate(edges[i].Source, edges[i].Target) # Nil THEN i - 1
    ELSE validPrefix(edges, i + 1)

\* An AddEdges that stores each item as soon as it has passed, in one loop.
AddEdgesEager(edges) ==
    LET r == validateAll(edges, 1)
        done == SubSeq(edges, 1, validPrefix(edges, 1))
    IN
    /\ CanLock
    /\ Returns("AddEdges", r)
    /\ outEdges' = commitOut(done, 1, outEdges)
    /\ inEdges' = commitIn(done, 1, inEdges)
    /\ edgeCount' = edgeCount + Len(done)
    /\ UNCHANGED <<traits, vertices>>

\* AddEdges(edges): edges a sequence of Edge
AddEdges(edges) ==
    LET r == validateAll(edges, 1) IN
    /\ CanLock
    /\ Returns("AddEdges", r)
    /\ IF r # Nil
       THEN UNCHANGED store
       ELSE /\ outEdges' = commitOut(edges, 1, outEdges)
            /\ inEdges' = commitIn(edges, 1, inEdges)
            /\ edgeCount' = edgeCount + Len(edges)
            /\ UNCHANGED <<traits, vertices>>

\* UpdateEdge(source, target, EdgeWeight(weight)): the stored edge is changed
\* through its pointer, which both indexes hold.
UpdateEdge(source, target, weight) ==
    LET e == edge(source, target) IN
    /\ CanLock
    /\ IF e = NoEdge
       THEN /\ Returns("UpdateEdge", "EdgeNotFound")
            /\ UNCHANGED store
       ELSE LET n == [e EXCEPT !.Weight = weight] IN
            /\ outEdges' = insertOut(outEdges, n)
            /\ inEdges' = IF e.Source \in DOMAIN inEdges[e.Target]
                          THEN insertIn(inEdges, n) ELSE inEdges
            /\ Returns("UpdateEdge", Nil)
            /\ UNCHANGED <<traits, vertices, edgeCount>>

RemoveEdge(source, target) ==
    LET e == edge(source, target) IN
    /\ CanLock
    /\ IF e = NoEdge
       THEN /\ Returns("RemoveEdge", "EdgeNotFound")
            /\ UNCHANGED store
       ELSE /\ outEdges' = [outEdges EXCEPT ![e.Source] = Delete(outEdges[e.Source], e.Target)]
            /\ inEdges' = [inEdges EXCEPT ![e.Target] = Delete(inEdges[e.Target], e.Source)]
            /\ edgeCount' = edgeCount - 1
            /\ Returns("RemoveEdge", Nil)
            /\ UNCHANGED <<traits, vertices>>

----------------------------------------------------------------------------
\* Reads.

\* Order()
Order == Cardinality(DOMAIN vertices)
\* Size()
Size == edgeCount
\* What Edges() yields: every edge of the out-edge index.
Edges == UNION {{outEdges[s][t] : t \in DOMAIN outEdges[s]} : s \in Keys}

----------------------------------------------------------------------------
\* The store driven by a caller that makes one call after another, with plain
\* (unweighted) vertices and edges, on a graph of any of the four kinds.

\* The keys the caller of Spec draws from.
MaxCallKey == 2
CallKeys == 1..MaxCallKey

Batches(S) == UNION {[1..n -> S] : n \in 0..MaxBatch}
PlainVertices(K) == {Vertex(v, 0) : v \in K}
PlainEdges(K) == {Edge(s, t, 0) : s \in K, t \in K}

\* A call made from the top level: no helper is running, and the caller holds
\* nothing across calls.
TopLevel == pc = "idle" /\ UNCHANGED caller

\* The calls, their keys drawn from K.
CallAddVertex(K) == TopLevel /\ \E v \in K : AddVertex(v, 0)
CallAddVertices(K) ==
    TopLevel /\ \E values \in Batches(PlainVertices(K)) : AddVertices(values)
CallRemoveVertex(K) == TopLevel /\ \E k \in K : RemoveVertex(k)
CallAddEdge(K) ==
    TopLevel /\ edgeCount < MaxSize /\ \E s \in K, t \in K : AddEdge(s, t, 0)
CallAddEdges(K) ==
    /\ TopLevel
    /\ \E n \in 0..MaxBatch :
        /\ edgeCount + n <= MaxSize
        /\ \E edges \in [1..n -> PlainEdges(K)] : AddEdges(edges)
CallUpdateEdge(K) == TopLevel /\ \E s \in K, t \in K : UpdateEdge(s, t, 0)
CallRemoveEdge(K) == TopLevel /\ \E s \in K, t \in K : RemoveEdge(s, t)

Init == \E d \in BOOLEAN, p \in BOOLEAN : NewMemoryGraph(d, p)

Next ==
    \/ CallAddVertex(CallKeys)
    \/ CallAddVertices(CallKeys)
    \/ CallRemoveVertex(CallKeys)
    \/ CallAddEdge(CallKeys)
    \/ CallAddEdges(CallKeys)
    \/ CallUpdateEdge(CallKeys)
    \/ CallRemoveEdge(CallKeys)

Spec == Init /\ [][Next]_vars

\* The same caller on a directed graph built with PreventCycles, making
\* single-item calls only, on any of the keys.
InitDAG == NewMemoryGraph(TRUE, TRUE)

NextDAG ==
    \/ CallAddVertex(Keys)
    \/ CallRemoveVertex(Keys)
    \/ CallAddEdge(Keys)
    \/ CallRemoveEdge(Keys)

SpecDAG == InitDAG /\ [][NextDAG]_vars

\* An undirected graph that refuses cycles, its vertices added one by one and
\* its edges added and removed one by one.
InitForest == NewMemoryGraph(FALSE, TRUE)

NextForest ==
    \/ CallAddVertex(Keys)
    \/ CallAddEdge(Keys)
    \/ CallRemoveEdge(Keys)

SpecForest == InitForest /\ [][NextForest]_vars

\* The vertex table alone, with weighted vertices and UpdateVertex.
WeightedVertices(K) == {Vertex(v, w) : v \in K, w \in Weights}

CallAddWeightedVertex(K) == TopLevel /\ \E v \in K, w \in Weights : AddVertex(v, w)
CallAddWeightedVertices(K) ==
    TopLevel /\ \E values \in Batches(WeightedVertices(K)) : AddVertices(values)
\* UpdateVertex(k, func(v) { v.Value = value; v.Properties.Weight = w })
CallUpdateVertex(K) ==
    TopLevel /\ \E k \in K, value \in K, w \in Weights : UpdateVertex(k, value, w)

InitVertex == NewMemoryGraph(FALSE, FALSE)

NextVertex ==
    \/ CallAddWeightedVertex(Keys)
    \/ CallAddWeightedVertices(Keys)
    \/ CallUpdateVertex(Keys)
    \/ CallRemoveVertex(Keys)

SpecVertex == InitVertex /\ [][NextVertex]_vars

\* Every call that takes a weight, on vertices and edges, on a graph directed
\* or not.
WeightedEdges(K) == {Edge(s, t, w) : s \in K, t \in K, w \in Weights}

CallAddWeightedEdge(K) ==
    /\ TopLevel
    /\ edgeCount < MaxSize
    /\ \E s \in K, t \in K, w \in Weights : AddEdge(s, t, w)
CallAddWeightedEdges(K) ==
    /\ TopLevel
    /\ \E n \in 0..MaxBatch :
        /\ edgeCount + n <= MaxSize
        /\ \E edges \in [1..n -> WeightedEdges(K)] : AddEdges(edges)
CallUpdateWeightedEdge(K) ==
    TopLevel /\ \E s \in K, t \in K, w \in Weights : UpdateEdge(s, t, w)
\* UpdateVertex(k, func(v) { v.Properties.Weight = w })
CallUpdateVertexWeight(K) ==
    TopLevel /\ \E k \in K, w \in Weights : UpdateVertex(k, k, w)

InitWeights == \E d \in BOOLEAN : NewMemoryGraph(d, FALSE)

NextWeights ==
    \/ CallAddWeightedVertex(CallKeys)
    \/ CallAddWeightedVertices(CallKeys)
    \/ CallUpdateVertexWeight(CallKeys)
    \/ CallAddWeightedEdge(CallKeys)
    \/ CallAddWeightedEdges(CallKeys)
    \/ CallUpdateWeightedEdge(CallKeys)

SpecWeights == InitWeights /\ [][NextWeights]_vars

----------------------------------------------------------------------------
\* AdjacencyMap() and PredecessorMap(): a map with an (empty) entry for every
\* vertex, filled in one pass over the out-edge index.  The pass takes the
\* stored edges in the order of a Go map range, which is any order.

\* The orders in which a range over the out-edge index can take the edges.
Orders(S) == {f \in [1..Cardinality(S) -> S] : \A i, j \in DOMAIN f : i # j => f[i] # f[j]}

\* m[x][y] = e on the map being built.  Assigning into m[x] when m has no
\* entry x (a nil inner map) panics, and the panic ends the call.
setEntry(r, x, y, e) ==
    IF r.panic \/ x \notin DOMAIN r.m THEN [r EXCEPT !.panic = TRUE]
    ELSE [r EXCEPT !.m[x] = Put(@, y, e)]

\* The body of AdjacencyMap's loop for the edge stored at outEdges[src][tgt].
adjacencyEntry(r, src, tgt) ==
    LET w == outEdges[src][tgt].Weight
        r1 == setEntry(r, src, tgt, Edge(src, tgt, w))
    IN IF ~traits.IsDirected THEN setEntry(r1, tgt, src, Edge(tgt, src, w)) ELSE r1

\* A PredecessorMap loop body that files an undirected edge as AdjacencyMap does.
predecessorEntryAsAdjacency(r, src, tgt) ==
    LET w == outEdges[src][tgt].Weight
        r1 == setEntry(r, tgt, src, Edge(tgt, src, w))
    IN IF ~traits.IsDirected THEN setEntry(r1, src, tgt, Edge(src, tgt, w)) ELSE r1

\* The body of PredecessorMap's loop for the edge stored at outEdges[src][tgt].
predecessorEntry(r, src, tgt) ==
    LET w == outEdges[src][tgt].Weight
        r1 == setEntry(r, tgt, src, Edge(src, tgt, w))
    IN IF ~traits.IsDirected THEN setEntry(r1, src, tgt, Edge(tgt, src, w)) ELSE r1

RECURSIVE adjacencyLoop(_, _, _)
adjacencyLoop(order, i, r) ==
    IF i > Len(order) THEN r
    ELSE adjacencyLoop(order, i + 1, adjacencyEntry(r, order[i][1], order[i][2]))

RECURSIVE predecessorLoop(_, _, _)
predecessorLoop(order, i, r) ==
    IF i > Len(order) THEN r
    ELSE predecessorLoop(order, i + 1, predecessorEntry(r, order[i][1], order[i][2]))

\* for k := range s.vertices { m[k] = make(map[K]Edge) }
emptyRelations == [panic |-> FALSE, m |-> [k \in DOMAIN vertices |-> EmptyMap]]

AdjacencyMap(order) == adjacencyLoop(order, 1, emptyRelations)
PredecessorMap(order) == predecessorLoop(order, 1, emptyRelations)

----------------------------------------------------------------------------
\* Neighbor iterators.  Each takes the read lock when the range statement first
\* calls it and releases it (deferred RUnlock) when it returns: after its last
\* element, or when the loop body leaves the loop.  The loop body runs inside
\* the iterator's yield, with the read lock held.

\* The edges DownstreamNeighbors(hash) yields: those of outEdges[hash], then,
\* undirected, those of inEdges[hash].
DownstreamNeighbors(hash) ==
    << {outEdges[hash][t] : t \in DOMAIN outEdges[hash]},
       IF ~traits.IsDirected
       THEN {inEdges[hash][s] : s \in DOMAIN inEdges[hash]} ELSE {} >>

\* The edges UpstreamNeighbors(hash) yields: those of inEdges[hash], then,
\* undirected, those of outEdges[hash].
UpstreamNeighbors(hash) ==
    << {inEdges[hash][s] : s \in DOMAIN inEdges[hash]},
       IF ~traits.IsDirected
       THEN {outEdges[hash][t] : t \in DOMAIN outEdges[hash]} ELSE {} >>

\* What an iterator of the store yields, in the two maps it ranges over one
\* after the other (the second empty where it ranges over one).
Yields(fn, k) ==
    IF fn = "Vertices" THEN << {vertices[x] : x \in DOMAIN vertices}, {} >>
    ELSE IF fn = "DownstreamNeighbors" THEN DownstreamNeighbors(k)
    ELSE IF fn = "UpstreamNeighbors" THEN UpstreamNeighbors(k)
    ELSE << Edges, {} >>

RLock == CanRLock /\ mu' = [mu EXCEPT !.readers = @ + 1]
RUnlock == mu' = [mu EXCEPT !.readers = @ - 1]

\* The range statement starts the iterator: RLock, and the edges to yield.  No
\* writer runs while the read lock is held, so the buckets the iterator ranges
\* over are the ones it finds here.
IterStart(edges, next) ==
    /\ RLock
    /\ frame' = [frame EXCEPT !.rest = edges]
    /\ pc' = next
    /\ UNCHANGED <<store, op, err>>

\* The iterator yields its next edge to the loop body, or has none left and
\* returns.
IterNext(body, after) ==
    IF frame.rest[1] \cup frame.rest[2] = {}
    THEN /\ RUnlock
         /\ pc' = after
         /\ UNCHANGED <<store, op, err, frame>>
    ELSE LET from == IF frame.rest[1] # {} THEN 1 ELSE 2 IN
         \E e \in frame.rest[from] :
            /\ frame' = [frame EXCEPT !.e = e, !.rest[from] = @ \ {e}]
            /\ pc' = body
            /\ UNCHANGED <<store, op, err, mu>>

\* The loop body returns r from the helper: yield returns false, the iterator
\* returns and its deferred RUnlock runs.
LeaveLoop(r) ==
    /\ RUnlock
    /\ pc' = "returned"
    /\ frame' = [frame EXCEPT !.result = r]

\* The helper returns r outside any loop.
Return(r) ==
    /\ pc' = "returned"
    /\ frame' = [frame EXCEPT !.result = r]
    /\ UNCHANGED mu

NoVertex == Vertex(0, 0)
Frame(fn, key, newValue) ==
    [fn |-> fn, key |-> key, newValue |-> newValue, newKey |-> Hash(newValue),
     v |-> NoVertex, rest |-> <<{}, {}>>, e |-> NoEdge, first |-> Nil, result |-> Nil,
     entry |-> [vertices |-> vertices, outEdges |-> outEdges]]

----------------------------------------------------------------------------
\* RemoveVertexAndEdges(g, toRemove)

CallRemoveVertexAndEdges(K) ==
    /\ pc = "idle"
    /\ UNCHANGED threads
    /\ \E toRemove \in K : frame' = Frame("RemoveVertexAndEdges", toRemove, toRemove)
    /\ pc' = "down"
    /\ UNCHANGED <<store, mu, op, err>>

\* One step of the helper: starting or advancing an iterator, or the call its
\* loop body or its last line makes.
RemoveVertexAndEdgesStep ==
    /\ frame.fn = "RemoveVertexAndEdges"
    /\ UNCHANGED threads
    /\ IF pc = "down" THEN IterStart(DownstreamNeighbors(frame.key), "down_next")
       ELSE IF pc = "down_next" THEN IterNext("down_body", "up")
       ELSE IF pc = "up" THEN IterStart(UpstreamNeighbors(frame.key), "up_next")
       ELSE IF pc = "up_next" THEN IterNext("up_body", "remove")
       ELSE IF pc \in {"down_body", "up_body"}
       THEN /\ RemoveEdge(frame.e.Source, frame.e.Target)
            /\ IF err' # Nil THEN LeaveLoop(err')
               ELSE /\ pc' = (IF pc = "down_body" THEN "down_next" ELSE "up_next")
                    /\ UNCHANGED <<mu, frame>>
       ELSE /\ pc = "remove"
            /\ RemoveVertex(frame.key)
            /\ Return(err')

----------------------------------------------------------------------------
\* ReplaceVertex(g, oldId, newValue)

CallReplaceVertex(K) ==
    /\ pc = "idle"
    /\ UNCHANGED threads
    /\ \E oldId \in K, newValue \in K : frame' = Frame("ReplaceVertex", oldId, newValue)
    /\ pc' = "start"
    /\ UNCHANGED <<store, mu, op, err>>

\* errors.Join(first, second) is nil only when both are.
Join(first, second) == IF first # Nil THEN first ELSE second

ReplaceVertexStep ==
    /\ frame.fn = "ReplaceVertex"
    /\ UNCHANGED threads
    /\ IF pc = "start" /\ frame.newKey = frame.key
       THEN \* g.UpdateVertex(oldId, func(v) { v.Value = newValue })
            /\ UpdateVertex(frame.key, frame.newValue,
                            IF frame.key \in DOMAIN vertices
                            THEN vertices[frame.key].Weight ELSE 0)
            /\ Return(err')
       ELSE IF pc = "start"
       THEN \* g.Vertex(oldId)
            /\ CanRLock
            /\ op' = "Vertex"
            /\ UNCHANGED <<store, mu>>
            /\ IF frame.key \in DOMAIN vertices
               THEN /\ err' = Nil
                    /\ frame' = [frame EXCEPT !.v = vertices[frame.key]]
                    /\ pc' = "add"
               ELSE /\ err' = "VertexNotFound"
                    /\ frame' = [frame EXCEPT !.result = "VertexNotFound"]
                    /\ pc' = "returned"
       ELSE IF pc = "add"
       THEN \* g.AddVertex(newValue, VertexCopyProperties(v.Properties))
            /\ AddVertex(frame.newValue, frame.v.Weight)
            /\ IF err' # Nil THEN Return(err')
               ELSE pc' = "down" /\ UNCHANGED <<mu, frame>>
       ELSE IF pc = "down" THEN IterStart(DownstreamNeighbors(frame.key), "down_next")
       ELSE IF pc = "down_next" THEN IterNext("down_remove", "up")
       ELSE IF pc = "down_remove"
       THEN \* e.Source = newKey; g.RemoveEdge(oldId, e.Target)
            /\ RemoveEdge(frame.key, frame.e.Target)
            /\ frame' = [frame EXCEPT !.e.Source = frame.newKey, !.first = err']
            /\ pc' = "down_add"
            /\ UNCHANGED mu
       ELSE IF pc = "up" THEN IterStart(UpstreamNeighbors(frame.key), "up_next")
       ELSE IF pc = "up_next" THEN IterNext("up_remove", "remove")
       ELSE IF pc = "up_remove"
       THEN \* e.Target = newKey; g.RemoveEdge(e.Source, oldId)
            /\ RemoveEdge(frame.e.Source, frame.key)
            /\ frame' = [frame EXCEPT !.e.Target = frame.newKey, !.first = err']
            /\ pc' = "up_add"
            /\ UNCHANGED mu
       ELSE IF pc \in {"down_add", "up_add"}
       THEN \* g.AddEdge(EdgeCopy(e)), joined with what RemoveEdge returned
            /\ AddEdge(frame.e.Source, frame.e.Target, frame.e.Weight)
            /\ IF Join(frame.first, err') # Nil THEN LeaveLoop(Join(frame.first, err'))
               ELSE /\ pc' = (IF pc = "down_add" THEN "down_next" ELSE "up_next")
                    /\ UNCHANGED <<mu, frame>>
       ELSE /\ pc = "remove"
            /\ RemoveVertex(frame.key)
            /\ Return(err')

\* The caller takes the helper's result and goes on.
Resume ==
    /\ pc = "returned"
    /\ UNCHANGED threads
    /\ pc' = "idle"
    /\ frame' = NoFrame
    /\ UNCHANGED <<store, mu, op, err>>

\* A caller that builds a graph, directed or not, with single-item calls and
\* runs the helpers on it.
InitHelpers == \E d \in BOOLEAN : NewMemoryGraph(d, FALSE)

NextHelpers ==
    \/ CallAddWeightedVertex(Keys)
    \/ CallAddEdge(Keys)
    \/ CallRemoveVertexAndEdges(Keys)
    \/ RemoveVertexAndEdgesStep
    \/ CallReplaceVertex(Keys)
    \/ ReplaceVertexStep
    \/ Resume

SpecHelpers == InitHelpers /\ [][NextHelpers]_vars

----------------------------------------------------------------------------
\* The store called by several goroutines.  A call is a sequence of steps of
\* its goroutine: the lock acquisition, at which it may wait, and the accesses
\* to the fields it makes while it holds the lock; the deferred Unlock or
\* RUnlock is part of the step that returns.  threads[t].pc is the step the
\* goroutine t takes next.

NoHelper == pc = "idle" /\ UNCHANGED <<pc, frame>>

\* Goroutine t calls fn(a, b, weight w); first is the call's first step.
Begin(t, fn, a, b, w, first) ==
    /\ threads[t].pc = "idle"
    /\ threads' = [threads EXCEPT ![t] =
                      [Idle EXCEPT !.fn = fn, !.pc = first, !.a = a, !.b = b, !.w = w]]
    /\ UNCHANGED <<store, mu, op, err>>

\* Goroutine t goes to its next step.
Goto(t, next) ==
    /\ threads' = [threads EXCEPT ![t].pc = next]
    /\ UNCHANGED <<op, err>>
\* Goroutine t's call returns r, and t is free to make another call.
Done(t, r) ==
    /\ threads' = [threads EXCEPT ![t] = Idle]
    /\ Returns(threads[t].fn, r)

\* s.mu.Lock() of a mutating method returns: nobody holds the lock.
ThreadLock(t) ==
    /\ NoHelper
    /\ threads[t].pc = "Lock"
    /\ CanLock
    /\ mu' = [mu EXCEPT !.writer = TRUE]
    /\ Goto(t, "promote")
    /\ UNCHANGED store

Unlock == mu' = [mu EXCEPT !.writer = FALSE]

\* AddVertex(a, VertexWeight(w)) after Lock: the traits, then the table.
ThreadAddVertexStep(t) ==
    LET c == threads[t] IN
    /\ NoHelper
    /\ c.fn = "AddVertex"
    /\ IF c.pc = "promote"
       THEN /\ traits' = IF ~traits.IsVerticesWeighted /\ c.w # 0
                         THEN [traits EXCEPT !.IsVerticesWeighted = TRUE] ELSE traits
            /\ Goto(t, "store")
            /\ UNCHANGED <<graph, mu>>
       ELSE /\ c.pc = "store"
            /\ IF Hash(c.a) \in DOMAIN vertices
               THEN Done(t, "VertexAlreadyExists") /\ UNCHANGED vertices
               ELSE /\ vertices' = Put(vertices, Hash(c.a), Vertex(c.a, c.w))
                    /\ Done(t, Nil)
            /\ Unlock
            /\ UNCHANGED <<traits, outEdges, inEdges, edgeCount>>

\* AddEdge(a, b, EdgeWeight(w)) after Lock: the traits, the checks, the
\* insertion.
ThreadAddEdgeStep(t) ==
    LET c == threads[t] IN
    /\ NoHelper
    /\ c.fn = "AddEdge"
    /\ IF c.pc = "promote"
       THEN /\ traits' = IF ~traits.IsEdgesWeighted /\ c.w # 0
                         THEN [traits EXCEPT !.IsEdgesWeighted = TRUE] ELSE traits
            /\ Goto(t, "validate")
            /\ UNCHANGED <<graph, mu>>
       ELSE IF c.pc = "validate"
       THEN /\ IF validate(c.a, c.b) # Nil
               THEN Done(t, validate(c.a, c.b)) /\ Unlock
               ELSE Goto(t, "insert") /\ UNCHANGED mu
            /\ UNCHANGED store
       ELSE /\ c.pc = "insert"
            /\ outEdges' = insertOut(outEdges, Edge(c.a, c.b, c.w))
            /\ inEdges' = insertIn(inEdges, Edge(c.a, c.b, c.w))
            /\ edgeCount' = edgeCount + 1
            /\ Done(t, Nil)
            /\ Unlock
            /\ UNCHANGED <<traits, vertices>>

\* The fields the next step of goroutine t reads and the fields it writes.
Reading(t) ==
    LET c == threads[t] IN
    IF c.pc = "Traits" THEN {"traits"}
    ELSE IF c.pc = "promote" THEN {"traits"}
    ELSE IF c.pc = "store" THEN {"vertices"}
    ELSE IF c.pc = "validate" THEN {"traits", "vertices", "outEdges", "inEdges"}
    ELSE IF c.pc = "insert" THEN {"outEdges", "inEdges", "edgeCount"}
    ELSE IF c.pc = "yield" THEN
        (IF c.fn = "Vertices" THEN {"vertices"}
         ELSE IF c.fn \in {"Edges", "EdgesWithVertex"} THEN {"outEdges"}
         ELSE {"traits", "outEdges", "inEdges"})
    ELSE IF c.pc = "Edge" THEN {"traits", "outEdges"}
    ELSE IF c.pc \in {"VertexSource", "VertexTarget"} THEN {"vertices"}
    ELSE {}

Writing(t) ==
    LET c == threads[t] IN
    IF c.pc = "promote" /\ c.w # 0
         /\ ~(IF c.fn = "AddVertex" THEN traits.IsVerticesWeighted
              ELSE traits.IsEdgesWeighted)
    THEN {"traits"}
    ELSE IF c.pc = "store" /\ Hash(c.a) \notin DOMAIN vertices THEN {"vertices"}
    ELSE IF c.pc = "insert" THEN {"outEdges", "inEdges", "edgeCount"}
    ELSE {}

\* The call's next step needs no lock acquisition first.
Ready(t) ==
    \/ threads[t].pc \in {"Traits", "promote", "store", "validate", "insert", "yield"}
    \/ threads[t].pc \in {"Edge", "VertexSource", "VertexTarget"} /\ CanRLock

\* The traits another goroutine's next step is about to store.
Promoted(u) ==
    IF "traits" \notin Writing(u) THEN traits
    ELSE IF threads[u].fn = "AddVertex"
    THEN [traits EXCEPT !.IsVerticesWeighted = TRUE]
    ELSE [traits EXCEPT !.IsEdgesWeighted = TRUE]

\* Traits(): return s.traits, with no lock.  A read that runs together with a
\* write of the field returns the old or the new value.
ThreadTraits(t) ==
    /\ NoHelper
    /\ threads[t].pc = "Traits"
    /\ \E r \in {traits} \cup {Promoted(u) : u \in Threads \ {t}} :
          threads' = [threads EXCEPT ![t] = [Idle EXCEPT !.seen = r]]
    /\ Returns("Traits", Nil)
    /\ UNCHANGED <<store, mu>>

ThreadCallTraits ==
    /\ NoHelper
    /\ \E t \in Threads : Begin(t, "Traits", 0, 0, 0, "Traits")
ThreadCallAddVertex(K, W) ==
    /\ NoHelper
    /\ \E t \in Threads, v \in K, w \in W : Begin(t, "AddVertex", v, 0, w, "Lock")
ThreadCallAddEdge(K, W) ==
    /\ NoHelper
    /\ edgeCount + Cardinality({t \in Threads : threads[t].fn = "AddEdge"}) < MaxSize
    /\ \E t \in Threads, a \in K, b \in K, w \in W : Begin(t, "AddEdge", a, b, w, "Lock")
ThreadsLock == \E t \in Threads : ThreadLock(t)
ThreadsAddVertexStep == \E t \in Threads : ThreadAddVertexStep(t)
ThreadsAddEdgeStep == \E t \in Threads : ThreadAddEdgeStep(t)
ThreadsTraits == \E t \in Threads : ThreadTraits(t)


\* s.mu.RLock() of an iterator returns: no writer holds the lock or waits for
\* it.  rest keeps what the store holds for the iterator at this moment.
ThreadRLock(t) ==
    /\ NoHelper
    /\ threads[t].pc = "RLock"
    /\ RLock
    /\ threads' = [threads EXCEPT ![t].pc = "yield",
                                  ![t].rest = Yields(threads[t].fn, threads[t].a)]
    /\ UNCHANGED <<store, op, err>>

\* The consumer's loop is over, by the iterator's end or by the consumer's
\* break: the iterator returns and its deferred RUnlock runs.
EndLoop(t) ==
    /\ RUnlock
    /\ threads' = [threads EXCEPT ![t] = Idle]
    /\ UNCHANGED <<op, err>>

\* One turn of the loop `for x := range g.Vertices()` (or Edges, or a neighbor
\* iterator): the iterator yields an element it has not yielded, of its first
\* map as long as there is one, and the consumer goes on or breaks; or nothing
\* is left and the loop ends.
ThreadIterStep(t) ==
    LET c == threads[t]
        left == [i \in 1..2 |-> Yields(c.fn, c.a)[i] \ c.got[i]]
        from == IF left[1] # {} THEN 1 ELSE 2
    IN
    /\ NoHelper
    /\ c.fn \in {"Vertices", "Edges", "DownstreamNeighbors", "UpstreamNeighbors"}
    /\ c.pc = "yield"
    /\ UNCHANGED store
    /\ IF left[1] \cup left[2] = {}
       THEN EndLoop(t)
       ELSE \E x \in left[from], break \in BOOLEAN :
               IF break THEN EndLoop(t)
               ELSE /\ threads' = [threads EXCEPT ![t].got[from] = @ \cup {x}]
                    /\ UNCHANGED <<mu, op, err>>

\* EdgesWithVertex(g): for each edge of g.Edges(), EdgeT calls g.Edge and
\* g.Vertex twice, each taking the read lock for itself, inside the loop body.
ThreadEdgesWithVertexStep(t) ==
    LET c == threads[t]
        left == Edges \ c.got[1]
    IN
    /\ NoHelper
    /\ c.fn = "EdgesWithVertex"
    /\ UNCHANGED store
    /\ IF c.pc = "yield"
       THEN IF left = {} THEN EndLoop(t)
            ELSE /\ \E x \in left :
                      threads' = [threads EXCEPT ![t].got[1] = @ \cup {x},
                                                 ![t].e = x, ![t].pc = "Edge"]
                 /\ UNCHANGED <<mu, op, err>>
       ELSE IF c.pc = "Edge"
       THEN \* g.Edge(e.Source, e.Target)
            /\ CanRLock
            /\ IF edge(c.e.Source, c.e.Target) = NoEdge
               THEN threads' = [threads EXCEPT ![t].res = "EdgeNotFound",
                                               ![t].pc = "consume"]
               ELSE threads' = [threads EXCEPT ![t].pc = "VertexSource"]
            /\ UNCHANGED <<mu, op, err>>
       ELSE IF c.pc \in {"VertexSource", "VertexTarget"}
       THEN \* g.Vertex(source), g.Vertex(target)
            LET k == IF c.pc = "VertexSource" THEN c.e.Source ELSE c.e.Target IN
            /\ CanRLock
            /\ IF k \notin DOMAIN vertices
               THEN threads' = [threads EXCEPT ![t].res = "VertexNotFound",
                                               ![t].pc = "consume"]
               ELSE threads' = [threads EXCEPT ![t].pc =
                        IF c.pc = "VertexSource" THEN "VertexTarget" ELSE "consume"]
            /\ UNCHANGED <<mu, op, err>>
       ELSE \* yield(ev, err): the consumer goes on or breaks
            /\ c.pc = "consume"
            /\ \E break \in BOOLEAN :
                  IF break THEN EndLoop(t)
                  ELSE /\ threads' = [threads EXCEPT ![t].pc = "yield", ![t].res = Nil]
                       /\ UNCHANGED <<mu, op, err>>

ThreadCallIterate(K) ==
    /\ NoHelper
    /\ \E t \in Threads, k \in K,
          fn \in {"Vertices", "Edges", "DownstreamNeighbors", "UpstreamNeighbors"} :
            Begin(t, fn, IF fn \in {"Vertices", "Edges"} THEN 0 ELSE k, 0, 0, "RLock")
ThreadCallEdgesWithVertex ==
    /\ NoHelper
    /\ \E t \in Threads : Begin(t, "EdgesWithVertex", 0, 0, 0, "RLock")
ThreadsRLock == \E t \in Threads : ThreadRLock(t)
ThreadsIterStep == \E t \in Threads : ThreadIterStep(t)
ThreadsEdgesWithVertexStep == \E t \in Threads : ThreadEdgesWithVertexStep(t)

\* Goroutines that add weighted vertices and edges and read the traits.
InitTraits == NewMemoryGraph(TRUE, FALSE)

NextTraits ==
    \/ ThreadCallTraits
    \/ ThreadCallAddVertex(CallKeys, Weights)
    \/ ThreadCallAddEdge(CallKeys, Weights)
    \/ ThreadsLock
    \/ ThreadsAddVertexStep
    \/ ThreadsAddEdgeStep
    \/ ThreadsTraits

SpecTraits == InitTraits /\ [][NextTraits]_vars

\* Goroutines that add vertices and edges to a directed PreventCycles graph.
InitWriters == NewMemoryGraph(TRUE, TRUE)

NextWriters ==
    \/ ThreadCallAddVertex(CallKeys, {0})
    \/ ThreadCallAddEdge(CallKeys, {0})
    \/ ThreadsLock
    \/ ThreadsAddVertexStep
    \/ ThreadsAddEdgeStep

SpecWriters == InitWriters /\ [][NextWriters]_vars

\* Goroutines that iterate over a graph, directed or not, while others add
\* vertices and edges to it.
InitReaders == \E d \in BOOLEAN : NewMemoryGraph(d, FALSE)

NextReaders ==
    \/ ThreadCallAddVertex(CallKeys, {0})
    \/ ThreadCallAddEdge(CallKeys, {0})
    \/ ThreadsLock
    \/ ThreadsAddVertexStep
    \/ ThreadsAddEdgeStep
    \/ ThreadCallIterate(CallKeys)
    \/ ThreadsRLock
    \/ ThreadsIterStep

SpecReaders == InitReaders /\ [][NextReaders]_vars

\* Goroutines that run EdgesWithVertex while others add vertices and edges.
InitEdgesWithVertex == NewMemoryGraph(TRUE, FALSE)

NextEdgesWithVertex ==
    \/ ThreadCallAddVertex(CallKeys, {0})
    \/ ThreadCallAddEdge(CallKeys, {0})
    \/ ThreadsLock
    \/ ThreadsAddVertexStep
    \/ ThreadsAddEdgeStep
    \/ ThreadCallEdgesWithVertex
    \/ ThreadsRLock
    \/ ThreadsEdgesWithVertexStep

SpecEdgesWithVertex == InitEdgesWithVertex /\ [][NextEdgesWithVertex]_vars

----------------------------------------------------------------------------
\* The vocabulary of the properties.

\* The pairs the out-edge index stores an edge under.
StoredPairs == {p \in (DOMAIN outEdges) \X (DOMAIN outEdges) : p[2] \in DOMAIN outEdges[p[1]]}
\* Every edge either index holds.
IndexedEdges == Edges \cup UNION {{inEdges[t][s] : s \in DOMAIN inEdges[t]} : t \in Keys}
\* Some stored edge has k as its source or as its target.
Incident(k) == \E p \in StoredPairs : p[1] = k \/ p[2] = k

\* The vertices a path of one or more stored edges leads to from the vertices
\* of frontier, following each edge from its source to its target.
RECURSIVE Closure(_, _)
Closure(frontier, seen) ==
    IF frontier \subseteq seen THEN seen
    ELSE Closure(UNION {DOMAIN outEdges[k] : k \in frontier}, seen \cup frontier)

Reaches(a, b) == b \in Closure(DOMAIN outEdges[a], {})
Acyclic == \A k \in Keys : ~Reaches(k, k)

----------------------------------------------------------------------------
\* A caller that asks for the relation maps of a graph it builds with
\* single-item calls.  frame holds what the call returned, until the caller
\* goes on (Resume).

Read(name, result) ==
    /\ CanRLock
    /\ frame' = result
    /\ pc' = "returned"
    /\ Returns(name, Nil)
    /\ UNCHANGED <<store, mu, threads>>

CallAdjacencyMap ==
    /\ pc = "idle"
    /\ \E order \in Orders(StoredPairs) :
        Read("AdjacencyMap", [fn |-> "AdjacencyMap", adj |-> AdjacencyMap(order)])

\* PredecessorMap(), called right after AdjacencyMap(): the caller has both.
CallPredecessorMap ==
    /\ pc = "returned" /\ frame.fn = "AdjacencyMap"
    /\ \E order \in Orders(StoredPairs) :
        Read("PredecessorMap", [fn |-> "PredecessorMap", adj |-> frame.adj,
                                pred |-> PredecessorMap(order)])

InitRelations == \E d \in BOOLEAN : NewMemoryGraph(d, FALSE)

NextRelations ==
    \/ CallAddVertex(CallKeys)
    \/ CallAddWeightedEdge(CallKeys)
    \/ CallRemoveEdge(CallKeys)
    \/ CallAdjacencyMap
    \/ CallPredecessorMap
    \/ Resume

SpecRelations == InitRelations /\ [][NextRelations]_vars

\* The generic DownstreamNeighbors(g, hash) and UpstreamNeighbors(g, hash) of
\* neighbors.go: every entry of every inner map of the relation map is
\* yielded; hash is not looked at.
entriesOf(r, hash) == UNION {{r.m[x][y] : y \in DOMAIN r.m[x]} : x \in DOMAIN r.m}

\* The caller ranges over a neighbor iterator to its end; yielded is what it
\* got from the first and from the second map the iterator ranges over.
Neighbors(name, k, yielded) ==
    Read(name, [fn |-> name, key |-> k, yielded |-> yielded])

CallDownstreamNeighbors(K) ==
    /\ pc = "idle"
    /\ \E k \in K : Neighbors("DownstreamNeighbors", k, DownstreamNeighbors(k))
CallUpstreamNeighbors(K) ==
    /\ pc = "idle"
    /\ \E k \in K : Neighbors("UpstreamNeighbors", k, UpstreamNeighbors(k))
CallGenericDownstreamNeighbors(K) ==
    /\ pc = "idle"
    /\ \E k \in K, order \in Orders(StoredPairs) :
          Neighbors("graph.DownstreamNeighbors", k,
                    <<entriesOf(AdjacencyMap(order), k), {}>>)
CallGenericUpstreamNeighbors(K) ==
    /\ pc = "idle"
    /\ \E k \in K, order \in Orders(StoredPairs) :
          Neighbors("graph.UpstreamNeighbors", k,
                    <<entriesOf(PredecessorMap(order), k), {}>>)

InitNeighbors == \E d \in BOOLEAN : NewMemoryGraph(d, FALSE)

NextNeighbors ==
    \/ CallAddVertex(CallKeys)
    \/ CallAddWeightedEdge(CallKeys)
    \/ CallRemoveEdge(CallKeys)
    \/ CallDownstreamNeighbors(CallKeys)
    \/ CallUpstreamNeighbors(CallKeys)
    \/ CallGenericDownstreamNeighbors(CallKeys)
    \/ CallGenericUpstreamNeighbors(CallKeys)
    \/ Resume

SpecNeighbors == InitNeighbors /\ [][NextNeighbors]_vars

\* The loop of the generic CreatesCycle: the same stack and visited set, the
\* predecessors of a vertex read from the predecessor map (a key the map does
\* not hold has none).
RECURSIVE genericCycleLoop(_, _, _, _)
genericCycleLoop(predecessorMap, stack, visited, target) ==
    IF stack = <<>> THEN FALSE
    ELSE LET currentHash == stack[Len(stack)]
             rest == SubSeq(stack, 1, Len(stack) - 1)
         IN IF currentHash \in visited
            THEN genericCycleLoop(predecessorMap, rest, visited, target)
            ELSE IF currentHash = target THEN TRUE
            ELSE genericCycleLoop(predecessorMap,
                     rest \o (IF currentHash \in DOMAIN predecessorMap
                              THEN SetToSeq(DOMAIN predecessorMap[currentHash])
                              ELSE <<>>),
                     visited \cup {currentHash}, target)

\* A test that looks at the direct predecessors of source only.
genericCreatesCycleDirect(predecessorMap, source, target) ==
    \/ source = target
    \/ source \in DOMAIN predecessorMap /\ target \in DOMAIN predecessorMap[source]

genericCreatesCycle(predecessorMap, source, target) ==
    IF source = target THEN TRUE
    ELSE genericCycleLoop(predecessorMap, <<source>>, {}, target)

Answer(name, source, target, res) ==
    Read(name, [fn |-> name, source |-> source, target |-> target, res |-> res])

\* The store's CreatesCycle.
CallCreatesCycle(K) ==
    /\ pc = "idle"
    /\ \E source \in K, target \in K :
          Answer("CreatesCycle", source, target,
                 IF source = target THEN TRUE ELSE createsCycle(source, target))

\* The generic CreatesCycle(g, source, target), g the store.
CallGenericCreatesCycle(K) ==
    /\ pc = "idle"
    /\ \E order \in Orders(StoredPairs) :
          LET predecessorMap == PredecessorMap(order).m
          IN \E source \in K, target \in K :
                Answer("graph.CreatesCycle", source, target,
                       genericCreatesCycle(predecessorMap, source, target))

InitCycles == NewMemoryGraph(TRUE, FALSE)

NextCycles ==
    \/ CallAddVertex(Keys)
    \/ CallAddEdge(Keys)
    \/ CallRemoveEdge(Keys)
    \/ CallCreatesCycle(Keys)
    \/ CallGenericCreatesCycle(Keys)
    \/ Resume

SpecCycles == InitCycles /\ [][NextCycles]_vars

----------------------------------------------------------------------------
\* Topological sort (dag.go).  The sort works on the map it is given and
\* destroys it; its queue, seen set and map live in frame between the items
\* it yields.  less is "nil" (no comparator), "asc" (a < b) or "desc" (the
\* comparator inverted).

Without(m, S) == [x \in (DOMAIN m) \ S |-> m[x]]

lessThan(less, a, b) == IF less = "asc" THEN a < b ELSE b < a
invert(less) == IF less = "asc" THEN "desc" ELSE "asc"

\* The slice a range over a map whose keys are S appends to, after
\* sort.Slice by less when less is not nil: any order of S, or the sorted one.
sortSlice(S, less) ==
    IF less = "nil" THEN Orders(S)
    ELSE {q \in Orders(S) : \A i, j \in DOMAIN q : i < j => lessThan(less, q[i], q[j])}

\* invertedCheck: the first inner entry the nested range comes upon decides.
invertedCheck(m) ==
    IF \A x \in DOMAIN m : DOMAIN m[x] = {} THEN {FALSE}
    ELSE UNION {{m[x][t].Target = t : t \in DOMAIN m[x]} : x \in DOMAIN m}

\* remaining[0] after the sort by remaining predecessors, then by less.
leastBlocked(m, isInverted, less) ==
    LET count(v) == Cardinality(DOMAIN m[v])
        first == {v \in DOMAIN m : \A w \in DOMAIN m :
                     IF isInverted THEN count(v) >= count(w) ELSE count(v) <= count(w)}
    IN IF less = "nil" THEN first
       ELSE {v \in first : \A w \in first \ {v} : lessThan(less, v, w)}

\* A frontier that takes every vertex left in the map.
frontierOfAll(m, seen) == {vertex \in DOMAIN m : vertex \notin seen}

\* The vertices of the map that have no predecessor left and were not seen.
frontierOf(m, seen) == {vertex \in DOMAIN m : DOMAIN m[vertex] = {} /\ vertex \notin seen}

\* The part of StableTopologicalSort that runs at the call: the states it
\* can leave the iterator in.
sorters(name, predecessorMap, less) ==
    LET zero == {vertex \in DOMAIN predecessorMap : DOMAIN predecessorMap[vertex] = {}}
        rest == Without(predecessorMap, zero)
    IN UNION {LET by == IF less # "nil" /\ isInverted THEN invert(less) ELSE less
              IN {[fn |-> name, predecessorMap |-> rest, less |-> by,
                   isInverted |-> isInverted, queue |-> queue, seen |-> zero,
                   order |-> <<>>, err |-> Nil, complete |-> FALSE] :
                     queue \in sortSlice(zero, by)} :
                isInverted \in invertedCheck(rest)}

StableTopologicalSort(name, predecessorMap, less) ==
    /\ frame' \in sorters(name, predecessorMap, less)
    /\ pc' = "sort"
    /\ UNCHANGED <<store, mu, threads, op, err>>

\* The caller takes the store's predecessor map and sorts it.
CallTopologicalSort ==
    /\ pc = "idle"
    /\ CanRLock
    /\ \E order \in Orders(StoredPairs) :
          StableTopologicalSort("TopologicalSort", PredecessorMap(order).m, "nil")
CallStableTopologicalSort ==
    /\ pc = "idle"
    /\ CanRLock
    /\ \E order \in Orders(StoredPairs) :
          StableTopologicalSort("StableTopologicalSort", PredecessorMap(order).m, "asc")

\* One turn of the loop of the returned iterator: take the next vertex from
\* the queue, or the least blocked one left in the map when the queue is
\* empty; yield it; strike it from the predecessors of the others and queue
\* those that have none left.  The consumer may leave its loop at the yield.
SortStep ==
    /\ pc = "sort"
    /\ UNCHANGED <<store, mu, threads, op, err>>
    /\ IF frame.queue = <<>> /\ DOMAIN frame.predecessorMap = {}
       THEN /\ pc' = "returned"
            /\ frame' = [frame EXCEPT !.complete = TRUE]
       ELSE \E currentVertex \in
                 IF frame.queue = <<>>
                 THEN leastBlocked(frame.predecessorMap, frame.isInverted, frame.less)
                 ELSE {Head(frame.queue)} :
              LET picked == frame.queue = <<>>
                  queue == IF picked THEN <<>> ELSE Tail(frame.queue)
                  seen == IF picked THEN frame.seen \cup {currentVertex} ELSE frame.seen
                  left == IF picked THEN Without(frame.predecessorMap, {currentVertex})
                          ELSE frame.predecessorMap
                  struck == [vertex \in DOMAIN left |-> Without(left[vertex], {currentVertex})]
                  found == frontierOf(struck, seen)
              IN \/ /\ pc' = "returned"
                    /\ frame' = [frame EXCEPT !.queue = queue, !.seen = seen,
                                              !.predecessorMap = left,
                                              !.order = Append(@, currentVertex)]
                 \/ \E frontier \in sortSlice(found, frame.less) :
                       /\ pc' = "sort"
                       /\ frame' = [frame EXCEPT !.queue = queue \o frontier,
                                                 !.seen = seen \cup found,
                                                 !.predecessorMap = Without(struck, found),
                                                 !.order = Append(@, currentVertex)]

InitSort == \E p \in BOOLEAN : NewMemoryGraph(TRUE, p)

NextSort ==
    \/ CallAddVertex(Keys)
    \/ CallAddEdge(Keys)
    \/ CallTopologicalSort
    \/ CallStableTopologicalSort
    \/ SortStep
    \/ Resume

SpecSort == InitSort /\ [][NextSort]_vars

\* A caller that, a stable sort consumed to its end, takes the predecessor map
\* of the same graph again and sorts it again, keeping the first sequence.
Replay ==
    /\ pc = "returned"
    /\ frame.fn = "StableTopologicalSort"
    /\ frame.complete
    /\ "first" \notin DOMAIN frame
    /\ CanRLock
    /\ \E order \in Orders(StoredPairs) :
         \E f \in sorters("StableTopologicalSort", PredecessorMap(order).m, "asc") :
            frame' = [x \in (DOMAIN f) \cup {"first"} |->
                         IF x = "first" THEN frame.order ELSE f[x]]
    /\ pc' = "sort"
    /\ UNCHANGED <<store, mu, threads, op, err>>

NextReplay ==
    \/ CallAddVertex(Keys)
    \/ CallAddEdge(Keys)
    \/ CallStableTopologicalSort
    \/ SortStep
    \/ Replay
    \/ Resume

SpecReplay == InitSort /\ [][NextReplay]_vars

----------------------------------------------------------------------------
\* TransitiveReduction (dag.go).  It takes the adjacency map once, and for
\* each vertex and each of its successors walks the map depth-first from the
\* successor, removing from the graph every edge of the vertex that leads to
\* a vertex the walk comes upon.  The map is not refreshed after a removal.

\* stack.contains(x): x is on the stack.
contains(stack, x) == \E i \in DOMAIN stack : stack[i] = x

\* for adjacency := range adjacencyMap[current], taken in the given order, on
\* r = the stack, the edges removed so far and the error.  visited does not
\* change in this loop.
RECURSIVE adjacencies(_, _, _, _, _, _)
adjacencies(adjacencyMap, vertex, visited, order, i, r) ==
    IF i > Len(order) \/ r.err # Nil THEN r
    ELSE LET adjacency == order[i]
         IN adjacencies(adjacencyMap, vertex, visited, order, i + 1,
               IF adjacency \in visited
               THEN IF contains(r.stack, adjacency)
                    THEN [r EXCEPT !.err = "GraphHasCycle"]
                    ELSE r
               ELSE [r EXCEPT !.stack = Append(@, adjacency),
                              !.removed = IF adjacency \in DOMAIN adjacencyMap[vertex]
                                          THEN @ \cup {<<vertex, adjacency>>} ELSE @])

\* The walk's loop, for !stack.isEmpty(): what it can end with, over the
\* orders the inner maps can be ranged in.
RECURSIVE walks(_, _, _, _)
walks(adjacencyMap, vertex, visited, r) ==
    IF r.stack = <<>> THEN {r}
    ELSE LET current == r.stack[Len(r.stack)]
             rest == SubSeq(r.stack, 1, Len(r.stack) - 1)
             successors == IF current \in DOMAIN adjacencyMap
                           THEN DOMAIN adjacencyMap[current] ELSE {}
         IN IF current \in visited
            THEN walks(adjacencyMap, vertex, visited, [r EXCEPT !.stack = rest])
            ELSE UNION {LET after == adjacencies(adjacencyMap, vertex, visited \cup {current},
                                         order, 1, [r EXCEPT !.stack = Append(rest, current)])
                        IN IF after.err # Nil THEN {after}
                           ELSE walks(adjacencyMap, vertex, visited \cup {current}, after) :
                          order \in Orders(successors)}

\* A walk that counts the successor it starts from among the vertices it
\* comes upon.
startRemoving(vertex, successor, removed) ==
    [stack |-> <<successor>>, removed |-> removed \cup {<<vertex, successor>>}, err |-> Nil]

\* stack.push(successor) on a new stack.
start(vertex, successor, removed) ==
    [stack |-> <<successor>>, removed |-> removed, err |-> Nil]

\* for successor := range successors, in the given order.
RECURSIVE successorsLoop(_, _, _, _, _)
successorsLoop(adjacencyMap, vertex, order, i, r) ==
    IF i > Len(order) \/ r.err # Nil THEN {r}
    ELSE UNION {successorsLoop(adjacencyMap, vertex, order, i + 1, after) :
                  after \in walks(adjacencyMap, vertex, {}, start(vertex, order[i], r.removed))}

\* g.RemoveEdge(source, target) for each pair of removed; the error of a
\* pair that is not stored is dropped.
removeAll(removed) ==
    LET stored == {p \in removed : edge(p[1], p[2]) # NoEdge}
    IN /\ outEdges' = [s \in DOMAIN outEdges |->
                          Without(outEdges[s], {p[2] : p \in {q \in stored : q[1] = s}})]
       /\ inEdges' = [t \in DOMAIN inEdges |->
                          Without(inEdges[t], {p[1] : p \in {q \in stored : q[2] = t}})]
       /\ edgeCount' = edgeCount - Cardinality(stored)
       /\ UNCHANGED <<traits, vertices>>

CallTransitiveReduction ==
    /\ pc = "idle"
    /\ CanRLock
    /\ \E order \in Orders(StoredPairs) :
          frame' = [fn |-> "TransitiveReduction", adjacencyMap |-> AdjacencyMap(order).m,
                    todo |-> DOMAIN vertices, err |-> Nil]
    /\ pc' = "reduce"
    /\ UNCHANGED <<store, mu, threads, op, err>>

\* One turn of for vertex, successors := range adjacencyMap, or the return
\* after the last.
ReductionStep ==
    /\ pc = "reduce"
    /\ CanLock
    /\ UNCHANGED <<mu, threads>>
    /\ IF frame.todo = {}
       THEN /\ pc' = "returned"
            /\ UNCHANGED <<store, frame>>
            /\ Returns("TransitiveReduction", Nil)
       ELSE \E vertex \in frame.todo :
            \E order \in Orders(DOMAIN frame.adjacencyMap[vertex]) :
            \E r \in successorsLoop(frame.adjacencyMap, vertex, order, 1,
                                    [stack |-> <<>>, removed |-> {}, err |-> Nil]) :
              /\ removeAll(r.removed)
              /\ IF r.err # Nil
                 THEN /\ pc' = "returned"
                      /\ frame' = [frame EXCEPT !.err = r.err]
                      /\ Returns("TransitiveReduction", r.err)
                 ELSE /\ pc' = "reduce"
                      /\ frame' = [frame EXCEPT !.todo = @ \ {vertex}]
                      /\ UNCHANGED <<op, err>>

InitReduction == \E p \in BOOLEAN : NewMemoryGraph(TRUE, p)

NextReduction ==
    \/ CallAddVertex(Keys)
    \/ CallAddEdge(Keys)
    \/ CallTransitiveReduction
    \/ ReductionStep
    \/ Resume

SpecReduction == InitReduction /\ [][NextReduction]_vars

\* The reduction of larger acyclic graphs: the graph a caller has built with
\* AddVertex for each key of DrawnKeys and AddEdge for each pair of a set of
\* pairs that lead from a smaller key to a larger one.
MaxDrawnKey == 5
MaxDrawnSize == 6
DrawnKeys == 1..MaxDrawnKey

Built(directed, V, E) ==
    /\ traits = [IsDirected |-> directed, PreventCycles |-> FALSE,
                 IsVerticesWeighted |-> FALSE, IsEdgesWeighted |-> FALSE]
    /\ vertices = [k \in V |-> Vertex(k, 0)]
    /\ outEdges = [s \in V |-> [t \in {t \in V : <<s, t>> \in E} |-> Edge(s, t, 0)]]
    /\ inEdges = [t \in V |-> [s \in {s \in V : <<s, t>> \in E} |-> Edge(s, t, 0)]]
    /\ edgeCount = Cardinality(E)
    /\ mu = [readers |-> 0, writer |-> FALSE]
    /\ op = "AddEdge"
    /\ err = Nil
    /\ pc = "idle"
    /\ frame = NoFrame
    /\ threads = [t \in Threads |-> Idle]

InitDrawn ==
    \E E \in SUBSET {p \in DrawnKeys \X DrawnKeys : p[1] < p[2]} :
       /\ Cardinality(E) <= MaxDrawnSize
       /\ Built(TRUE, DrawnKeys, E)

NextDrawn ==
    \/ CallTransitiveReduction
    \/ ReductionStep
    \/ Resume

SpecDrawn == InitDrawn /\ [][NextDrawn]_vars

----------------------------------------------------------------------------
\* StronglyConnectedComponents (Tarjan).  state is sccState without the
\* adjacency map; a range over a map takes its keys in any order, so the
\* operators give every state a call can end in.

Min(a, b) == IF a < b THEN a ELSE b

\* var hash K
ZeroKey == 0

\* for hash != vertexHash { hash, _ = state.stack.pop(); component = append(component, hash) }
\* pop on an empty stack gives the zero key; the loop then never ends
\* unless the zero key is what it waits for.
RECURSIVE popComponent(_, _, _, _)
popComponent(stack, vertexHash, hash, component) ==
    IF hash = vertexHash THEN [stack |-> stack, component |-> component, hangs |-> FALSE]
    ELSE IF stack = <<>>
         THEN [stack |-> stack, component |-> Append(component, ZeroKey),
               hangs |-> ZeroKey # vertexHash]
         ELSE popComponent(SubSeq(stack, 1, Len(stack) - 1), vertexHash,
                           stack[Len(stack)], Append(component, stack[Len(stack)]))

\* The end of findSCC: the vertex whose lowlink is its index closes a component.
closeComponent(state, vertexHash) ==
    LET popped == popComponent(state.stack, vertexHash, ZeroKey, <<>>)
    IN [state EXCEPT !.stack = popped.stack,
                     !.components = Append(@, popped.component),
                     !.hangs = @ \/ popped.hangs]

RECURSIVE findSCC(_, _, _)
RECURSIVE findSCCLoop(_, _, _, _)

\* for adjacency := range state.adjacencyMap[vertexHash], rest the keys not
\* yet taken.
findSCCLoop(adjacencyMap, vertexHash, rest, state) ==
    IF rest = {} THEN {state}
    ELSE UNION {
           LET after ==
                 IF adjacency \notin state.visited
                 THEN {[s EXCEPT !.lowlink[vertexHash] = Min(@, s.lowlink[adjacency])] :
                          s \in findSCC(adjacencyMap, adjacency, state)}
                 ELSE IF contains(state.stack, adjacency)
                      THEN {[state EXCEPT !.lowlink[vertexHash] = Min(@, state.index[adjacency])]}
                      ELSE {state}
           IN UNION {findSCCLoop(adjacencyMap, vertexHash, rest \ {adjacency}, s) : s \in after} :
           adjacency \in rest}

findSCC(adjacencyMap, vertexHash, state) ==
    LET entered == [state EXCEPT !.stack = Append(@, vertexHash),
                                 !.visited = @ \cup {vertexHash},
                                 !.index = Put(@, vertexHash, state.time),
                                 !.lowlink = Put(@, vertexHash, state.time),
                                 !.time = @ + 1]
        successors == IF vertexHash \in DOMAIN adjacencyMap
                      THEN DOMAIN adjacencyMap[vertexHash] ELSE {}
    IN {IF s.lowlink[vertexHash] = s.index[vertexHash]
        THEN closeComponent(s, vertexHash) ELSE s :
          s \in findSCCLoop(adjacencyMap, vertexHash, successors, entered)}

\* for hash := range state.adjacencyMap { if not visited { findSCC(hash, state) } }
RECURSIVE componentsLoop(_, _, _)
componentsLoop(adjacencyMap, rest, state) ==
    IF rest = {} THEN {state}
    ELSE UNION {
           IF hash \in state.visited
           THEN componentsLoop(adjacencyMap, rest \ {hash}, state)
           ELSE UNION {componentsLoop(adjacencyMap, rest \ {hash}, s) :
                         s \in findSCC(adjacencyMap, hash, state)} :
           hash \in rest}

StronglyConnectedComponents(adjacencyMap) ==
    componentsLoop(adjacencyMap, DOMAIN adjacencyMap,
                   [components |-> <<>>, stack |-> <<>>, visited |-> {},
                    lowlink |-> EmptyMap, index |-> EmptyMap, time |-> 0, hangs |-> FALSE])

CallStronglyConnectedComponents ==
    /\ pc = "idle"
    /\ \E order \in Orders(StoredPairs) :
       \E state \in StronglyConnectedComponents(AdjacencyMap(order).m) :
          Read("StronglyConnectedComponents",
               [fn |-> "StronglyConnectedComponents",
                components |-> state.components, hangs |-> state.hangs])

\* The graphs a caller builds over keys that include the zero key.
KeysFromZero == 0..MaxKey

InitComponents ==
    \E V \in SUBSET KeysFromZero :
    \E E \in SUBSET (V \X V) :
       /\ Cardinality(E) <= MaxSize
       /\ Built(TRUE, V, E)

NextComponents ==
    \/ CallStronglyConnectedComponents
    \/ Resume

SpecComponents == InitComponents /\ [][NextComponents]_vars

----------------------------------------------------------------------------
\* Shortest paths.  Both algorithms take the adjacency map and the weighted
\* flags once and compute a map of best predecessors; the closure they
\* return walks it back from the target.  The operators give every result
\* the orders of the map ranges (and of equal priorities) allow.

\* math.MaxInt32, the distance Bellman-Ford starts every vertex with.
MaxInt32 == 2147483647
\* math.Inf(1): above every finite weight, and unchanged by an addition.
Infinity == MaxInt32
plus(a, b) == IF a = Infinity THEN Infinity ELSE a + b

\* The cost the loops give an edge that leads to adjacency: its weight, or 1
\* on a graph whose edges are not weighted, and the weight of the vertex it
\* leads to on a graph whose vertices are weighted.  g.Vertex fails for a
\* key that is no vertex.
\* An edge cost that takes every edge for unweighted.
edgeWeightOne(e) == 1

edgeWeight(e) == IF traits.IsEdgesWeighted THEN e.Weight ELSE 1
vertexFound(adjacency) == ~traits.IsVerticesWeighted \/ adjacency \in DOMAIN vertices
vertexWeight(adjacency) ==
    IF traits.IsVerticesWeighted THEN vertices[adjacency].Weight ELSE 0

\* shortestPathResult.ShortestPath: the walk back from target.  A
\* predecessor chain that comes back to a key it has passed never ends.
RECURSIVE walkBack(_, _, _, _, _)
walkBack(source, prev, current, path, passed) ==
    IF current = source THEN [path |-> <<source>> \o path, err |-> Nil]
    ELSE IF current \in passed THEN [path |-> <<>>, err |-> "hangs"]
    ELSE IF current \notin DOMAIN prev THEN [path |-> <<>>, err |-> "TargetNotReachable"]
    ELSE walkBack(source, prev, prev[current], <<current>> \o path, passed \cup {current})

\* A closure that answers with the two ends when the chain breaks.
closureUnchecked(r, source, target) ==
    LET w == walkBack(source, r.prev, target, <<>>, {})
    IN IF r.err # Nil THEN [path |-> <<>>, err |-> r.err]
       ELSE IF w.err # Nil THEN [path |-> <<source, target>>, err |-> Nil]
       ELSE w

\* What the closure of a finished computation answers for target.
closure(r, source, target) ==
    IF r.err # Nil THEN [path |-> <<>>, err |-> r.err]
    ELSE walkBack(source, r.prev, target, <<>>, {})

\* a + b < c on float64, where no sum of the model's numbers overflows; written
\* so that no intermediate value leaves the 32 bits of the model's integers.
sumLess(a, b, c) == IF a > 0 /\ b > 0 THEN c > 0 /\ b < c - a ELSE a + b < c

\* m[k] read from a Go map of numbers: zero for a key it does not hold.
lookup(m, k) == IF k \in DOMAIN m THEN m[k] ELSE 0

\* The priority queue of Dijkstra, a map from the items queued to their
\* priorities.  Pop takes an item of the least priority, any of them when
\* several have it; UpdatePriority changes the priority of an item that is
\* queued and does nothing for one that is not.
PopItems(queue) == {v \in DOMAIN queue : \A w \in DOMAIN queue : queue[v] <= queue[w]}
UpdatePriority(queue, item, priority) ==
    IF item \in DOMAIN queue THEN Put(queue, item, priority) ELSE queue

\* Dijkstra.  state.queue is the priority queue.
\* for adjacency, edge := range adjacencyMap[vertex], rest the keys not yet taken.
RECURSIVE dijkstraRelax(_, _, _, _)
dijkstraRelax(adjacencyMap, vertex, rest, state) ==
    IF rest = {} \/ state.err # Nil THEN {state}
    ELSE UNION {
           LET weight == plus(state.weights[vertex],
                              edgeWeight(adjacencyMap[vertex][adjacency])
                                + vertexWeight(adjacency))
           IN dijkstraRelax(adjacencyMap, vertex, rest \ {adjacency},
                IF ~vertexFound(adjacency) THEN [state EXCEPT !.err = "VertexNotFound"]
                ELSE IF weight < lookup(state.weights, adjacency)
                        /\ state.weights[vertex] # Infinity
                THEN [state EXCEPT !.weights[adjacency] = weight,
                                   !.prev = Put(@, adjacency, vertex),
                                   !.queue = UpdatePriority(@, adjacency, weight)]
                ELSE state) :
           adjacency \in rest}

\* for queue.Len() > 0 { vertex, _ := queue.Pop(); ... }
RECURSIVE dijkstraLoop(_, _)
dijkstraLoop(adjacencyMap, state) ==
    IF DOMAIN state.queue = {} \/ state.err # Nil THEN {state}
    ELSE UNION {
           UNION {dijkstraLoop(adjacencyMap, s) :
                    s \in dijkstraRelax(adjacencyMap, vertex, DOMAIN adjacencyMap[vertex],
                                        [state EXCEPT !.queue = Without(@, {vertex})])} :
           vertex \in PopItems(state.queue)}

DijkstraShortestPath(adjacencyMap, source) ==
    LET weights == [hash \in (DOMAIN adjacencyMap) \cup {source} |->
                       IF hash = source THEN 0 ELSE Infinity]
    IN dijkstraLoop(adjacencyMap,
                    [weights |-> weights,
                     queue |-> [hash \in DOMAIN adjacencyMap |-> weights[hash]],
                     prev |-> EmptyMap, err |-> Nil])

\* Bellman-Ford.  The relaxation of the edges of key, rest the inner keys not
\* yet taken.
RECURSIVE bellmanFordRelax(_, _, _, _)
bellmanFordRelax(adjacencyMap, key, rest, state) ==
    IF rest = {} \/ state.err # Nil THEN {state}
    ELSE UNION {
           LET e == adjacencyMap[key][adj]
               weight == edgeWeight(e) + vertexWeight(adj)
               newDist == lookup(state.dist, key) + weight
           IN bellmanFordRelax(adjacencyMap, key, rest \ {adj},
                IF ~vertexFound(adj) THEN [state EXCEPT !.err = "VertexNotFound"]
                ELSE IF sumLess(lookup(state.dist, key), weight, lookup(state.dist, e.Target))
                THEN [state EXCEPT !.dist = Put(@, e.Target, newDist),
                                   !.prev = Put(@, e.Target, key)]
                ELSE state) :
           adj \in rest}

\* for _, key := range keys, from the j-th on.
RECURSIVE bellmanFordPass(_, _, _, _)
bellmanFordPass(adjacencyMap, keys, j, state) ==
    IF j > Len(keys) \/ state.err # Nil THEN {state}
    ELSE UNION {bellmanFordPass(adjacencyMap, keys, j + 1, s) :
                  s \in bellmanFordRelax(adjacencyMap, keys[j],
                                         DOMAIN adjacencyMap[keys[j]], state)}

\* for i := 0; i < len(adjacencyMap)-1; i++, with passes passes to go.
RECURSIVE bellmanFordPasses(_, _, _, _)
bellmanFordPasses(adjacencyMap, keys, passes, states) ==
    IF passes <= 0 THEN states
    ELSE bellmanFordPasses(adjacencyMap, keys, passes - 1,
             UNION {bellmanFordPass(adjacencyMap, keys, 1, s) : s \in states})

\* The last loop: an e that still improves a distance means a cycle of
\* negative weight.
negativeCycle(adjacencyMap, state) ==
    IF state.err # Nil THEN state
    ELSE IF \E key \in DOMAIN adjacencyMap : \E adj \in DOMAIN adjacencyMap[key] :
               ~vertexFound(adj)
    THEN [state EXCEPT !.err = "VertexNotFound"]
    ELSE IF \E key \in DOMAIN adjacencyMap : \E adj \in DOMAIN adjacencyMap[key] :
               LET e == adjacencyMap[key][adj]
               IN sumLess(lookup(state.dist, e.Source), edgeWeight(e) + vertexWeight(adj),
                          lookup(state.dist, e.Target))
    THEN [state EXCEPT !.err = "NegativeCycle"]
    ELSE state

\* A Bellman-Ford that makes one pass fewer.
bellmanFordPassCountShort(adjacencyMap) == Cardinality(DOMAIN adjacencyMap) - 2

bellmanFordPassCount(adjacencyMap) == Cardinality(DOMAIN adjacencyMap) - 1

\* less = nil: keys stays in the order of the range over the map.
BellmanFordShortestPath(adjacencyMap, source) ==
    LET dist == Put([key \in DOMAIN adjacencyMap |-> MaxInt32], source, 0)
    IN UNION {{negativeCycle(adjacencyMap, s) :
                 s \in bellmanFordPasses(adjacencyMap, keys, bellmanFordPassCount(adjacencyMap),
                                         {[dist |-> dist, prev |-> EmptyMap, err |-> Nil]})} :
              keys \in Orders(DOMAIN adjacencyMap)}

\* ShortestPath: Bellman-Ford on a directed graph, Dijkstra on an undirected one.
ShortestPath(adjacencyMap, source) ==
    IF traits.IsDirected THEN BellmanFordShortestPath(adjacencyMap, source)
    ELSE DijkstraShortestPath(adjacencyMap, source)

\* The caller computes the closure for source and asks it for target.
Ask(name, computed, source, target) ==
    \E r \in computed :
       Read(name, [fn |-> name, source |-> source, target |-> target,
                   result |-> closure(r, source, target)])

\* The adjacency maps g.AdjacencyMap() can return, over the orders of its loop.
AdjacencyMaps == {AdjacencyMap(order).m : order \in Orders(StoredPairs)}

CallShortestPath(K) ==
    /\ pc = "idle"
    /\ \E source \in K, target \in K, adjacencyMap \in AdjacencyMaps :
          Ask("ShortestPath", ShortestPath(adjacencyMap, source), source, target)

CallDijkstraShortestPath(K) ==
    /\ pc = "idle"
    /\ \E source \in K, target \in K, adjacencyMap \in AdjacencyMaps :
          Ask("DijkstraShortestPath", DijkstraShortestPath(adjacencyMap, source),
              source, target)

\* The caller that has Dijkstra's answer asks Bellman-Ford for the same pair
\* and keeps both.
CallBellmanFordShortestPath ==
    /\ pc = "returned"
    /\ frame.fn = "DijkstraShortestPath"
    /\ CanRLock
    /\ \E adjacencyMap \in AdjacencyMaps :
       \E r \in BellmanFordShortestPath(adjacencyMap, frame.source) :
          frame' = [fn |-> "BellmanFordShortestPath", source |-> frame.source,
                    target |-> frame.target, dijkstra |-> frame.result,
                    result |-> closure(r, frame.source, frame.target)]
    /\ pc' = "returned"
    /\ Returns("BellmanFordShortestPath", Nil)
    /\ UNCHANGED <<store, mu, threads>>

\* The graphs a caller builds with AddVertex and AddEdge, weights included:
\* vertexWeights maps the vertices, edgeWeights the stored pairs, to their
\* weights; a flag is set when a weight other than zero was added.
BuiltWeighted(directed, verticesWeighted, edgesWeighted, vertexWeights, edgeWeights) ==
    LET V == DOMAIN vertexWeights
        E == DOMAIN edgeWeights
    IN /\ traits = [IsDirected |-> directed, PreventCycles |-> FALSE,
                    IsVerticesWeighted |-> verticesWeighted,
                    IsEdgesWeighted |-> edgesWeighted]
       /\ vertices = [k \in V |-> Vertex(k, vertexWeights[k])]
       /\ outEdges = [s \in V |->
                        [t \in {t \in V : <<s, t>> \in E} |-> Edge(s, t, edgeWeights[<<s, t>>])]]
       /\ inEdges = [t \in V |->
                        [s \in {s \in V : <<s, t>> \in E} |-> Edge(s, t, edgeWeights[<<s, t>>])]]
       /\ edgeCount = Cardinality(E)
       /\ mu = [readers |-> 0, writer |-> FALSE]
       /\ op = "AddEdge"
       /\ err = Nil
       /\ pc = "idle"
       /\ frame = NoFrame
       /\ threads = [t \in Threads |-> Idle]

\* The sets of pairs AddEdge can have stored over V: on an undirected graph
\* not both (s,t) and (t,s).
PairSets(directed, V) ==
    {E \in SUBSET (V \X V) :
        /\ Cardinality(E) <= MaxSize
        /\ directed \/ \A p \in E : p[1] = p[2] \/ <<p[2], p[1]>> \notin E}

InitPaths ==
    \E directed \in BOOLEAN, verticesWeighted \in BOOLEAN, edgesWeighted \in BOOLEAN :
    \E V \in SUBSET Keys :
    \E E \in PairSets(directed, V) :
    \E vertexWeights \in [V -> IF verticesWeighted THEN Weights ELSE {0}] :
    \E edgeWeights \in [E -> IF edgesWeighted THEN Weights ELSE {0}] :
       BuiltWeighted(directed, verticesWeighted, edgesWeighted, vertexWeights, edgeWeights)

NextPaths ==
    \/ CallShortestPath(Keys)
    \/ CallDijkstraShortestPath(Keys)
    \/ CallBellmanFordShortestPath
    \/ Resume

SpecPaths == InitPaths /\ [][NextPaths]_vars

----------------------------------------------------------------------------
\* Spanning trees.  The destination is a second graph, kept with the call:
\* a record of the fields of a MemoryGraph that is undirected and does not
\* prevent cycles.

newDestination ==
    [traits |-> [IsDirected |-> FALSE, PreventCycles |-> FALSE,
                 IsVerticesWeighted |-> FALSE, IsEdgesWeighted |-> FALSE],
     vertices |-> EmptyMap,
     outEdges |-> [k \in Keys |-> EmptyMap],
     inEdges |-> [k \in Keys |-> EmptyMap],
     edgeCount |-> 0,
     err |-> Nil]

\* mst.AddVertex(value, VertexCopyProperties(props))
addVertexTo(mst, v) ==
    LET weighted == [mst EXCEPT !.traits.IsVerticesWeighted = @ \/ v.Weight # 0]
    IN IF Hash(v.Value) \in DOMAIN mst.vertices
       THEN [weighted EXCEPT !.err = "VertexAlreadyExists"]
       ELSE [weighted EXCEPT !.vertices = Put(@, Hash(v.Value), v)]

\* mst.AddEdge(EdgeCopy(edge))
addEdgeTo(mst, e) ==
    LET weighted == [mst EXCEPT !.traits.IsEdgesWeighted = @ \/ e.Weight # 0]
    IN IF e.Source \notin DOMAIN mst.vertices \/ e.Target \notin DOMAIN mst.vertices
       THEN [weighted EXCEPT !.err = "VertexNotFound"]
       ELSE IF \/ e.Target \in DOMAIN mst.outEdges[e.Source]
               \/ e.Source \in DOMAIN mst.outEdges[e.Target]
       THEN [weighted EXCEPT !.err = "EdgeAlreadyExists"]
       ELSE [weighted EXCEPT !.outEdges = insertOut(@, e),
                             !.inEdges = insertIn(@, e),
                             !.edgeCount = @ + 1]

\* unionFind.find: the walk to the root.
RECURSIVE rootOf(_, _)
rootOf(parents, root) == IF parents[root] = root THEN root ELSE rootOf(parents, parents[root])

\* unionFind.find: the loop after it, which sets the parent of vertex.
RECURSIVE compress(_, _, _, _)
compress(parents, vertex, current, root) ==
    IF parents[current] = root THEN parents
    ELSE compress(Put(parents, vertex, root), vertex, parents[vertex], root)

find(parents, vertex) ==
    LET root == rootOf(parents, vertex)
    IN [root |-> root, parents |-> compress(parents, vertex, vertex, root)]

\* A union that merges the two vertices without looking for their roots.
unionOfVertices(parents, vertex1, vertex2) ==
    IF vertex1 = vertex2 THEN [merged |-> FALSE, parents |-> parents]
    ELSE [merged |-> TRUE, parents |-> Put(parents, vertex2, vertex1)]

\* unionFind.union
union(parents, vertex1, vertex2) ==
    LET f1 == find(parents, vertex1)
        f2 == find(f1.parents, vertex2)
    IN IF f1.root = f2.root THEN [merged |-> FALSE, parents |-> f2.parents]
       ELSE [merged |-> TRUE, parents |-> Put(f2.parents, f2.root, f1.root)]

\* The first loop of spanningTree, rest the keys of the adjacency map not yet
\* taken: the vertex is added to the destination and to the subtrees.  The
\* edges are gathered by edgesOfMap.
RECURSIVE gather(_, _)
gather(rest, state) ==
    IF rest = {} \/ state.mst.err # Nil THEN {state}
    ELSE UNION {gather(rest \ {v},
                       LET added == addVertexTo(state.mst, vertices[v])
                       IN IF v \notin DOMAIN vertices
                          THEN [state EXCEPT !.mst.err = "VertexNotFound"]
                          ELSE [mst |-> added, subtrees |-> Put(state.subtrees, v, v)]) :
                v \in rest}

\* The entries of the adjacency map, the edges the first loop appends.
edgesOfMap(adjacencyMap) ==
    {p \in (DOMAIN adjacencyMap) \X (DOMAIN adjacencyMap) : p[2] \in DOMAIN adjacencyMap[p[1]]}

\* The comparison sort.Slice is given.
lessWeight(maximum, a, b) == IF maximum THEN a.Weight > b.Weight ELSE a.Weight < b.Weight

\* The second loop over the sorted edges, rest the entries not yet walked:
\* sort.Slice leaves edges that compare equal in any order.
RECURSIVE kruskal(_, _, _, _)
kruskal(adjacencyMap, maximum, rest, state) ==
    IF rest = {} \/ state.mst.err # Nil THEN {state}
    ELSE UNION {
           LET e == adjacencyMap[p[1]][p[2]]
               u == union(state.subtrees, e.Source, e.Target)
           IN kruskal(adjacencyMap, maximum, rest \ {p},
                      [mst |-> IF u.merged THEN addEdgeTo(state.mst, e) ELSE state.mst,
                       subtrees |-> u.parents]) :
           p \in {p \in rest : \A q \in rest :
                     ~lessWeight(maximum, adjacencyMap[q[1]][q[2]], adjacencyMap[p[1]][p[2]])}}

\* spanningTree(g, maximum, mst): the destinations it can leave.
spanningTree(adjacencyMap, maximum, mst) ==
    UNION {kruskal(adjacencyMap, maximum, edgesOfMap(adjacencyMap), gathered) :
             gathered \in gather(DOMAIN adjacencyMap, [mst |-> mst, subtrees |-> EmptyMap])}

MinimumSpanningTree(adjacencyMap, mst) == spanningTree(adjacencyMap, FALSE, mst)
MaximumSpanningTree(adjacencyMap, mst) == spanningTree(adjacencyMap, TRUE, mst)

\* The caller makes an empty destination and asks for a spanning tree in it.
CallSpanningTree(name, results) ==
    /\ pc = "idle"
    /\ \E r \in results : Read(name, [fn |-> name, mst |-> r.mst])

CallMinimumSpanningTree ==
    \E adjacencyMap \in AdjacencyMaps :
       CallSpanningTree("MinimumSpanningTree", MinimumSpanningTree(adjacencyMap, newDestination))

CallMaximumSpanningTree ==
    \E adjacencyMap \in AdjacencyMaps :
       CallSpanningTree("MaximumSpanningTree", MaximumSpanningTree(adjacencyMap, newDestination))

\* Undirected graphs with weighted edges, as the tests build them.
InitTrees ==
    \E V \in SUBSET Keys :
    \E E \in PairSets(FALSE, V) :
    \E edgeWeights \in [E -> Weights] :
       BuiltWeighted(FALSE, FALSE, TRUE, [v \in V |-> 0], edgeWeights)

NextTrees ==
    \/ CallMinimumSpanningTree
    \/ CallMaximumSpanningTree
    \/ Resume

SpecTrees == InitTrees /\ [][NextTrees]_vars

----------------------------------------------------------------------------
\* All paths between two vertices.  A stack is the sequence of its elements,
\* the top last; forEach visits them from the bottom.  A stack taken from
\* the pool is cleared and so is an empty stack.

push(stack, element) == Append(stack, element)
top(stack) == stack[Len(stack)]
pop(stack) == SubSeq(stack, 1, Len(stack) - 1)
isEmpty(stack) == stack = <<>>
newStack == <<>>

\* The count forEach leaves in containsCount.
containsCount(mainStack, e) == Cardinality({i \in DOMAIN mainStack : mainStack[i] = e})

\* A test that leaves out every vertex that is on the main stack.
skippedOnStack(mainStack, e, begin, end) == containsCount(mainStack, e) > 0

\* if contains && (e != start || e != end) || containsCount > 1 { continue }
skipped(mainStack, e, begin, end) ==
    \/ containsCount(mainStack, e) > 0 /\ (e # begin \/ e # end)
    \/ containsCount(mainStack, e) > 1

\* buildLayer(element): the states it can leave, one for every order the
\* range over adjacencyMap[element] can take.
buildLayer(adjacencyMap, begin, end, state, element) ==
    LET mainStack == push(state.mainStack, element)
        neighbours == IF element \in DOMAIN adjacencyMap
                       THEN DOMAIN adjacencyMap[element] ELSE {}
        kept == {e \in neighbours : ~skipped(mainStack, e, begin, end)}
    IN {[mainStack |-> mainStack, viceStack |-> push(state.viceStack, newElements)] :
          newElements \in Orders(kept)}

\* The loop of buildStack: for !elements.isEmpty().
RECURSIVE buildStack(_, _, _, _)
buildStack(adjacencyMap, begin, end, state) ==
    LET elements == top(state.viceStack)
        popped == [state EXCEPT !.viceStack[Len(state.viceStack)] = pop(elements)]
    IN IF isEmpty(elements) THEN {state}
       ELSE UNION {buildStack(adjacencyMap, begin, end, s) :
                     s \in buildLayer(adjacencyMap, begin, end, popped, top(elements))}

\* removeLayer, called with both stacks holding an element and an empty top
\* of the vice stack.
removeLayer(state) ==
    [mainStack |-> pop(state.mainStack), viceStack |-> pop(state.viceStack)]

\* AllPathsBetween(g, start, end): the adjacency map is read and the first
\* layer built; the iterator has not run yet.
CallAllPathsBetween(K) ==
    /\ pc = "idle"
    /\ CanRLock
    /\ \E begin \in K, end \in K, adjacencyMap \in AdjacencyMaps :
       \E state \in buildLayer(adjacencyMap, begin, end,
                               [mainStack |-> newStack, viceStack |-> newStack], begin) :
          frame' = [fn |-> "AllPathsBetween", adjacencyMap |-> adjacencyMap,
                    start |-> begin, end |-> end, state |-> state, paths |-> <<>>]
    /\ pc' = "paths"
    /\ UNCHANGED <<store, mu, threads, op, err>>

\* One turn of for !mainStack.isEmpty(), or the end of the iterator.
AllPathsStep ==
    /\ pc = "paths"
    /\ UNCHANGED <<store, mu, threads>>
    /\ IF isEmpty(frame.state.mainStack)
       THEN /\ pc' = "returned"
            /\ UNCHANGED frame
            /\ Returns("AllPathsBetween", Nil)
       ELSE LET v == top(frame.state.mainStack)
                adjs == top(frame.state.viceStack)
            IN /\ pc' = "paths"
               /\ UNCHANGED <<op, err>>
               /\ IF isEmpty(adjs)
                  THEN frame' = [frame EXCEPT
                          !.paths = IF v = frame.end /\ Len(frame.state.mainStack) > 1
                                    THEN Append(@, frame.state.mainStack) ELSE @,
                          !.state = removeLayer(@)]
                  ELSE \E state \in buildStack(frame.adjacencyMap, frame.start, frame.end,
                                               frame.state) :
                          frame' = [frame EXCEPT !.state = state]

InitAllPaths ==
    \E directed \in BOOLEAN :
    \E V \in SUBSET Keys :
    \E E \in PairSets(directed, V) :
       Built(directed, V, E)

NextAllPaths ==
    \/ CallAllPathsBetween(Keys)
    \/ AllPathsStep
    \/ Resume

SpecAllPaths == InitAllPaths /\ [][NextAllPaths]_vars

----------------------------------------------------------------------------
\* Traversals (traversal.go).  DFS and BFS read the adjacency map, look the
\* start up and make the stack (the queue) and the visited set; the function
\* they return runs the loop over these same variables every time it is
\* iterated.  The frame keeps them, the items yielded in the present pass and,
\* in a second pass, those of the first.

\* One yielded item.
Item(key, e) == [key |-> key, err |-> e]

\* A lookup in visited that finds nothing.
visitedNever(visited, hash) == FALSE

\* _, ok := visited[hash]
isVisited(visited, hash) == hash \in visited

\* DFS up to the return of the iterator function.
CallDFS(K) ==
    /\ pc = "idle"
    /\ CanRLock
    /\ \E begin \in K, adjacencyMap \in AdjacencyMaps :
          frame' = [fn |-> "DFS", start |-> begin, adjacencyMap |-> adjacencyMap,
                    found |-> begin \in DOMAIN adjacencyMap,
                    stack |-> IF begin \in DOMAIN adjacencyMap
                              THEN push(newStack, begin) ELSE newStack,
                    visited |-> {}, items |-> <<>>, stopped |-> FALSE,
                    pass |-> 1, first |-> <<>>, firstStopped |-> FALSE]
    /\ pc' = "traverse"
    /\ UNCHANGED <<store, mu, threads, op, err>>

\* BFS up to the return of the iterator function.
CallBFS(K) ==
    /\ pc = "idle"
    /\ CanRLock
    /\ \E begin \in K, adjacencyMap \in AdjacencyMaps :
          frame' = [fn |-> "BFS", start |-> begin, adjacencyMap |-> adjacencyMap,
                    found |-> begin \in DOMAIN adjacencyMap,
                    stack |-> IF begin \in DOMAIN adjacencyMap THEN <<begin>> ELSE <<>>,
                    visited |-> IF begin \in DOMAIN adjacencyMap THEN {begin} ELSE {},
                    items |-> <<>>, stopped |-> FALSE,
                    pass |-> 1, first |-> <<>>, firstStopped |-> FALSE]
    /\ pc' = "traverse"
    /\ UNCHANGED <<store, mu, threads, op, err>>

\* The iterator function ends: the consumer has the items of this pass.
EndPass(f) ==
    /\ frame' = f
    /\ pc' = "returned"
    /\ Returns(f.fn, Nil)

\* One turn of for !stack.isEmpty() in DFS; goOn is what yield returns.
dfsTurn(f, goOn) ==
    LET currentHash == top(f.stack)
        popped == [f EXCEPT !.stack = pop(@)]
    IN IF isVisited(f.visited, currentHash) THEN {popped}
       ELSE IF ~goOn
       THEN {[popped EXCEPT !.items = Append(@, Item(currentHash, Nil)), !.stopped = TRUE]}
       ELSE {[popped EXCEPT !.items = Append(@, Item(currentHash, Nil)),
                            !.visited = @ \cup {currentHash},
                            !.stack = @ \o order] :
               order \in Orders(DOMAIN f.adjacencyMap[currentHash])}

\* for adjacency := range adjacencyMap[currentHash] in BFS, rest the keys
\* not yet taken.
RECURSIVE bfsEnqueue(_, _)
bfsEnqueue(rest, f) ==
    IF rest = {} THEN {f}
    ELSE UNION {bfsEnqueue(rest \ {adjacency},
                           IF isVisited(f.visited, adjacency) THEN f
                           ELSE [f EXCEPT !.visited = @ \cup {adjacency},
                                          !.stack = Append(@, adjacency)]) :
                adjacency \in rest}

\* One turn of for len(queue) > 0 in BFS; the queue is kept in f.stack.
bfsTurn(f, goOn) ==
    LET currentHash == Head(f.stack)
        taken == [f EXCEPT !.stack = Tail(@), !.items = Append(@, Item(currentHash, Nil))]
    IN IF ~goOn THEN {[taken EXCEPT !.stopped = TRUE]}
       ELSE bfsEnqueue(DOMAIN f.adjacencyMap[currentHash], taken)

\* One step of the iterator function.
TraversalStep ==
    /\ pc = "traverse"
    /\ UNCHANGED <<store, mu, threads>>
    /\ IF ~frame.found
       THEN EndPass([frame EXCEPT !.items = <<Item(ZeroKey, "VertexNotFound")>>])
       ELSE IF isEmpty(frame.stack)
       THEN EndPass(frame)
       ELSE \E goOn \in BOOLEAN :
            \E f \in IF frame.fn = "DFS" THEN dfsTurn(frame, goOn) ELSE bfsTurn(frame, goOn) :
               IF f.stopped
               THEN EndPass(f)
               ELSE /\ frame' = f
                    /\ pc' = "traverse"
                    /\ UNCHANGED <<op, err>>

\* The consumer iterates the value it holds a second time.
Restart ==
    /\ pc = "returned"
    /\ frame.fn \in {"DFS", "BFS"}
    /\ frame.pass = 1
    /\ frame' = [frame EXCEPT !.pass = 2, !.first = frame.items,
                              !.firstStopped = frame.stopped,
                              !.items = <<>>, !.stopped = FALSE]
    /\ pc' = "traverse"
    /\ UNCHANGED <<store, mu, threads, op, err>>

NextTraversal ==
    \/ CallDFS(Keys)
    \/ CallBFS(Keys)
    \/ TraversalStep
    \/ Restart
    \/ Resume

SpecTraversal == InitAllPaths /\ [][NextTraversal]_vars

----------------------------------------------------------------------------
\* Walk (memory.go, walk.go).  MemoryGraph.Walk hands the walk its own index
\* of out-edges (down) or of in-edges (up); the walk keeps a list of pending
\* paths, takes one (the first for BFS, the last for DFS), calls the visitor
\* with it and appends its extensions.  pendingPaths is never written before
\* it is read, so add always copies the path.

\* Path.Contains
Contains(p, k) == \E i \in DOMAIN p : p[i] = k

\* The index MemoryGraph.Walk walks.
depsOf(dir) == IF dir = "down" THEN outEdges ELSE inEdges

\* EdgeWeightLess
EdgeWeightLess(e1, e2) == e1.Weight < e2.Weight

\* The orders in which the keys of deps[key] can be appended: the order of
\* the range when less is nil, else any order sort.Slice can leave, with
\* less inverted for DFS.
frontierOrders(deps, key, less, order) ==
    LET keys == IF key \in DOMAIN deps THEN DOMAIN deps[key] ELSE {}
        before(a, b) == IF order = "DFS"
                        THEN EdgeWeightLess(deps[key][b], deps[key][a])
                        ELSE EdgeWeightLess(deps[key][a], deps[key][b])
    IN IF less = Nil THEN Orders(keys)
       ELSE {f \in Orders(keys) : \A i, j \in DOMAIN f : i < j => ~before(f[j], f[i])}

\* add(current, next) for the keys of frontier from the i-th on.
RECURSIVE addAll(_, _, _, _)
addAll(pending, current, frontier, i) ==
    IF i > Len(frontier) THEN pending
    ELSE addAll(IF Contains(current, frontier[i]) THEN pending
                ELSE Append(pending, Append(current, frontier[i])),
                current, frontier, i + 1)

\* The first pending paths: the keys of deps[start] but start itself.
RECURSIVE firstPaths(_, _, _, _)
firstPaths(pending, begin, frontier, i) ==
    IF i > Len(frontier) THEN pending
    ELSE firstPaths(IF frontier[i] # begin THEN Append(pending, <<begin, frontier[i]>>)
                    ELSE pending,
                    begin, frontier, i + 1)

\* A walk in which SkipPath is an error like any other.
skipsPathNever(nerr) == FALSE

\* if nerr == SkipPath { continue }
skipsPath(nerr) == nerr = "SkipPath"

\* What the visitor can return.
WalkCodes == {Nil, "SkipPath", "SkipAll", "failed"}

\* Walk(dir, order, start, f, less) up to the loop.
CallWalk(K) ==
    /\ pc = "idle"
    /\ CanRLock
    /\ \E dir \in {"down", "up"}, order \in {"BFS", "DFS"}, begin \in K,
          less \in {Nil, "EdgeWeightLess"} :
       \E frontier \in frontierOrders(depsOf(dir), begin, less, order) :
          frame' = [fn |-> "Walk", dir |-> dir, order |-> order, start |-> begin,
                    less |-> less,
                    pending |-> firstPaths(<<>>, begin, frontier, 1),
                    err |-> Nil, calls |-> <<>>, result |-> Nil]
    /\ pc' = "walk"
    /\ UNCHANGED <<store, mu, threads, op, err>>

\* One turn of for len(pending) > 0, or the return after the last; the
\* visitor's answer is any of WalkCodes.
WalkStep ==
    /\ pc = "walk"
    /\ UNCHANGED <<store, mu, threads>>
    /\ IF frame.pending = <<>>
       THEN /\ frame' = [frame EXCEPT !.result = frame.err]
            /\ pc' = "returned"
            /\ Returns("Walk", frame.err)
       ELSE LET n == Len(frame.pending)
                current == IF frame.order = "BFS" THEN frame.pending[1] ELSE frame.pending[n]
                rest == IF frame.order = "BFS" THEN Tail(frame.pending)
                        ELSE SubSeq(frame.pending, 1, n - 1)
                last == current[Len(current)]
            IN \E nerr \in WalkCodes :
               LET called == [frame EXCEPT
                                !.calls = Append(@, [path |-> current, nerr |-> nerr,
                                                     err |-> frame.err]),
                                !.pending = rest]
               IN IF nerr = "SkipAll"
                  THEN /\ frame' = [called EXCEPT !.result = Nil]
                       /\ pc' = "returned"
                       /\ Returns("Walk", Nil)
                  ELSE /\ pc' = "walk"
                       /\ UNCHANGED <<op, err>>
                       /\ IF skipsPath(nerr)
                          THEN frame' = called
                          ELSE \E frontier \in frontierOrders(depsOf(frame.dir), last,
                                                              frame.less, frame.order) :
                                  frame' = [called EXCEPT
                                              !.err = nerr,
                                              !.pending = addAll(rest, current, frontier, 1)]

\* Graphs with weighted edges, directed and undirected.
InitWalk ==
    \E directed \in BOOLEAN :
    \E V \in SUBSET Keys :
    \E E \in PairSets(directed, V) :
    \E edgeWeights \in [E -> Weights] :
       BuiltWeighted(directed, FALSE, TRUE, [v \in V |-> 0], edgeWeights)

NextWalk ==
    \/ CallWalk(Keys)
    \/ WalkStep
    \/ Resume

SpecWalk == InitWalk /\ [][NextWalk]_vars

----------------------------------------------------------------------------
\* MemoryGraph.AllPathsBetween (memory.go): the iterator of
\* AllPathsFromAdjacency over the store's own index of out-edges.

CallMemoryAllPathsBetween(K) ==
    /\ pc = "idle"
    /\ CanRLock
    /\ \E begin \in K, end \in K :
       \E state \in buildLayer(outEdges, begin, end,
                               [mainStack |-> newStack, viceStack |-> newStack], begin) :
          frame' = [fn |-> "MemoryGraph.AllPathsBetween", adjacencyMap |-> outEdges,
                    start |-> begin, end |-> end, state |-> state, paths |-> <<>>]
    /\ pc' = "paths"
    /\ UNCHANGED <<store, mu, threads, op, err>>

\* The caller that has the paths of the store's AllPathsBetween asks the
\* generic AllPathsBetween for the same two vertices and keeps both.
CallAllPathsBetweenAgain ==
    /\ pc = "returned"
    /\ frame.fn = "MemoryGraph.AllPathsBetween"
    /\ CanRLock
    /\ \E adjacencyMap \in AdjacencyMaps :
       \E state \in buildLayer(adjacencyMap, frame.start, frame.end,
                               [mainStack |-> newStack, viceStack |-> newStack], frame.start) :
          frame' = [fn |-> "AllPathsBetween", adjacencyMap |-> adjacencyMap,
                    start |-> frame.start, end |-> frame.end, state |-> state,
                    paths |-> <<>>, specialised |-> frame.paths]
    /\ pc' = "paths"
    /\ UNCHANGED <<store, mu, threads, op, err>>

NextBothPaths ==
    \/ CallMemoryAllPathsBetween(Keys)
    \/ CallAllPathsBetweenAgain
    \/ AllPathsStep
    \/ Resume

SpecBothPaths == InitAllPaths /\ [][NextBothPaths]_vars

----------------------------------------------------------------------------
\* Vertices with attributes, and a caller that changes what a read gave it.
\* Properties.Attributes is a Go map: copying the struct copies the reference
\* to the map, not the map.  Here the stored vertex holds its map, made
\* (by make) or nil, with its entries, and a copy of the struct holds
\* mapOf |-> k, the map of the stored vertex of key k.

NilMap == [made |-> FALSE, entries |-> EmptyMap]
MadeMap(entries) == [made |-> TRUE, entries |-> entries]

AttributeNames == {"color", "label"}
AttributeValues == {"red", "blue"}

\* The properties that AddVertex(value, VertexWeight(weight)) and
\* AddVertex(value, VertexWeight(weight), VertexAttribute(key, value)) build:
\* the map is nil until VertexAttribute makes it.
OptionProperties ==
    {[Weight |-> w, Attributes |-> NilMap] : w \in Weights}
    \cup {[Weight |-> w, Attributes |-> MadeMap(Put(EmptyMap, key, val))] :
            w \in Weights, key \in AttributeNames, val \in AttributeValues}

\* AddVertex(value, options...), the options having built properties
AddVertexWith(value, properties) ==
    LET k == Hash(value) IN
    /\ CanLock
    /\ traits' = IF ~traits.IsVerticesWeighted /\ properties.Weight # 0
                 THEN [traits EXCEPT !.IsVerticesWeighted = TRUE] ELSE traits
    /\ IF k \in DOMAIN vertices
       THEN /\ Returns("AddVertex", "VertexAlreadyExists")
            /\ UNCHANGED graph
       ELSE /\ vertices' = Put(vertices, k, [Value |-> value, Weight |-> properties.Weight,
                                             Attributes |-> properties.Attributes])
            /\ Returns("AddVertex", Nil)
            /\ UNCHANGED <<outEdges, inEdges, edgeCount>>

CallAddVertexWith(K) ==
    TopLevel /\ \E v \in K, properties \in OptionProperties : AddVertexWith(v, properties)

\* return *v, nil: the struct is copied, its map is the stored vertex's map.
copyOf(k) ==
    [vertices[k] EXCEPT !.Attributes = [made |-> @.made, mapOf |-> k]]

\* Vertex(hash).  The frame keeps the copy the caller holds (v) and what the
\* copy read as when it was returned (first).
CallVertex(K) ==
    /\ pc = "idle"
    /\ \E hash \in K :
        IF hash \notin DOMAIN vertices
        THEN /\ CanRLock
             /\ Returns("Vertex", "VertexNotFound")
             /\ UNCHANGED <<store, caller>>
        ELSE Read("Vertex", [fn |-> "Vertex", hash |-> hash, v |-> copyOf(hash),
                             first |-> vertices[hash], inserted |-> FALSE])

\* The caller's v.Properties.Attributes[key] = val; on a nil map Go panics,
\* so the caller does it on a map only.
InsertAttribute ==
    /\ pc = "returned" /\ frame.fn = "Vertex"
    /\ frame.v.Attributes.made
    /\ \E key \in AttributeNames, val \in AttributeValues :
        vertices' = [vertices EXCEPT
                       ![frame.v.Attributes.mapOf].Attributes.entries = Put(@, key, val)]
    /\ frame' = [frame EXCEPT !.inserted = TRUE]
    /\ UNCHANGED <<traits, outEdges, inEdges, edgeCount, mu, op, err, pc, threads>>

\* The caller's v.Properties.Weight = w: a field of the caller's struct.
SetWeightOfCopy ==
    /\ pc = "returned" /\ frame.fn = "Vertex"
    /\ \E w \in Weights : w # frame.v.Weight /\ frame' = [frame EXCEPT !.v.Weight = w]
    /\ UNCHANGED <<store, mu, op, err, pc, threads>>

\* Vertex(hash) once more, by the caller that holds the first copy.
CallVertexAgain ==
    /\ pc = "returned" /\ frame.fn = "Vertex"
    /\ Read("Vertex", [fn |-> "VertexAgain", hash |-> frame.hash, first |-> frame.first,
                       second |-> vertices[frame.hash], inserted |-> frame.inserted])

InitOwnership == NewMemoryGraph(FALSE, FALSE)

NextOwnership ==
    \/ CallAddVertexWith(Keys)
    \/ CallRemoveVertex(Keys)
    \/ CallVertex(Keys)
    \/ InsertAttribute
    \/ SetWeightOfCopy
    \/ CallVertexAgain
    \/ Resume

SpecOwnership == InitOwnership /\ [][NextOwnership]_vars

----------------------------------------------------------------------------
\* PathWeight on the weighted graphs of the shortest paths.

\* g.Edge(source, target): NoEdge stands for EdgeNotFound.
edgeOrNone(source, target) ==
    IF source \in DOMAIN outEdges /\ target \in DOMAIN outEdges
    THEN edge(source, target) ELSE NoEdge

\* The loop for i := 1; i < len(path)-1; i++.  Go's path[i-1] and path[i]
\* are path[i] and path[i + 1] here.
RECURSIVE pathWeightLoop(_, _, _)
pathWeightLoop(path, i, weight) ==
    IF ~(i < Len(path) - 1) THEN [weight |-> weight, err |-> Nil]
    ELSE LET e == edgeOrNone(path[i], path[i + 1]) IN
         IF e = NoEdge THEN [weight |-> weight, err |-> "EdgeNotFound"]
         ELSE IF traits.IsVerticesWeighted /\ path[i + 1] \notin DOMAIN vertices
              THEN [weight |-> 0, err |-> "VertexNotFound"]
              ELSE pathWeightLoop(path, i + 1,
                                  weight + edgeWeight(e) + vertexWeight(path[i + 1]))

PathWeight(path) == pathWeightLoop(path, 1, 0)

\* The paths a caller asks the weight of: any sequence of keys, a path of
\* the graph or not.
DrawnPaths(K) == UNION {[1..n -> K] : n \in 0..MaxKey}

CallPathWeight(K) ==
    /\ pc = "idle"
    /\ \E path \in DrawnPaths(K) :
          Read("PathWeight", [fn |-> "PathWeight", path |-> path, result |-> PathWeight(path)])

NextPathWeight ==
    \/ CallPathWeight(Keys)
    \/ Resume

SpecPathWeight == InitPaths /\ [][NextPathWeight]_vars

----------------------------------------------------------------------------
\* C1: RemoveVertex(k) on an existing vertex that some stored edge has as its
\* source or target returns VertexHasEdges and changes nothing, on directed and
\* undirected graphs alike.
C1_RemoveVertexRefused ==
    [][\A k \in Keys :
        (RemoveVertex(k) /\ k \in DOMAIN vertices /\ Incident(k))
            => (err' = "VertexHasEdges" /\ UNCHANGED store)]_vars

\* C2: both endpoints of every stored edge are keys of the vertex table.
C2_EndpointsExist ==
    \A e \in IndexedEdges : e.Source \in DOMAIN vertices /\ e.Target \in DOMAIN vertices

\* C3: Order() is the number of vertices and Size() is the number of edges the
\* out-edge index stores.
C3_OrderAndSize ==
    /\ Order = Cardinality(DOMAIN vertices)
    /\ Size = Cardinality(StoredPairs)

\* C4: at most one stored edge per ordered pair of a directed graph and per
\* unordered pair of an undirected graph.
C4_OneEdgePerPair ==
    \A s \in Keys, t \in Keys :
        IF traits.IsDirected
        THEN Cardinality({e \in Edges : e.Source = s /\ e.Target = t}) <= 1
        ELSE Cardinality({e \in Edges : {e.Source, e.Target} = {s, t}}) <= 1

C6_BulkPreventsCycles ==
    [][(/\ traits.IsDirected /\ traits.PreventCycles /\ Acyclic
        /\ op' = "AddEdges" /\ err' = Nil)
            => Acyclic']_vars

\* C7: a bulk insert that returns an error leaves the vertex table, both edge
\* indexes and the edge count as they were.
C7_BulkAtomicOnFailure ==
    [][(op' \in {"AddVertices", "AddEdges"} /\ err' # Nil) => UNCHANGED graph]_vars

\* C7's case: AddEdges has just returned an error on a graph that holds the
\* vertices and room for the batch's earlier items.
C7_Witness ==
    /\ op = "AddEdges" /\ err \in {"EdgeAlreadyExists", "EdgeCausesCycle"}
    /\ Order >= 2 /\ Cardinality(StoredPairs) < Order * Order

\* C8: an UpdateVertex that returns UpdateChangedKey leaves the stored vertex,
\* value and properties, as it was before the call.
C8_UpdateVertexKeepsVertex ==
    [][(op' = "UpdateVertex" /\ err' = "UpdateChangedKey") => vertices' = vertices]_vars


\* The stored pairs when the running helper was called.
EntryPairs == {<<s, t>> \in Keys \X Keys : t \in DOMAIN frame.entry.outEdges[s]}

\* The helper was called on a vertex that had an edge at it.
CalledWithEdges == \E p \in EntryPairs : frame.key \in {p[1], p[2]}

\* C9: RemoveVertexAndEdges(g, k), called on a MemoryGraph holding k with
\* edges at k, always has a next step until it returns, and when it has
\* returned it returned nil, k is no longer a vertex, no stored edge has k as
\* an endpoint, and every edge that did not touch k is still stored.
C9_RemoveVertexAndEdgesCompletes ==
    (/\ frame.fn = "RemoveVertexAndEdges"
     /\ frame.key \in DOMAIN frame.entry.vertices
     /\ CalledWithEdges)
    => /\ pc # "returned" => ENABLED RemoveVertexAndEdgesStep
       /\ pc = "returned" =>
            /\ frame.result = Nil
            /\ frame.key \notin DOMAIN vertices
            /\ ~Incident(frame.key)
            /\ \A p \in EntryPairs :
                  frame.key \notin {p[1], p[2]} => p \in StoredPairs

\* The endpoint an edge at oldId has after the replacement.
Moved(k) == IF k = frame.key THEN frame.newKey ELSE k

\* C10: ReplaceVertex(g, old, newValue), called with old a vertex and
\* newValue hashing to a key that is not one, always has a next step until it
\* returns, and when it has returned it returned nil, old is gone, the new key
\* holds newValue with old's properties, and every edge that was stored is
\* stored with old replaced by the new key and its weight kept, and no other
\* edge is.
C10_ReplaceVertexMovesEdges ==
    (/\ frame.fn = "ReplaceVertex"
     /\ frame.key \in DOMAIN frame.entry.vertices
     /\ frame.newKey \notin DOMAIN frame.entry.vertices)
    => /\ pc # "returned" => ENABLED ReplaceVertexStep
       /\ pc = "returned" =>
            /\ frame.result = Nil
            /\ frame.key \notin DOMAIN vertices
            /\ frame.newKey \in DOMAIN vertices
            /\ vertices[frame.newKey] =
                  Vertex(frame.newValue, frame.entry.vertices[frame.key].Weight)
            /\ StoredPairs = {<<Moved(p[1]), Moved(p[2])>> : p \in EntryPairs}
            /\ \A p \in EntryPairs :
                  outEdges[Moved(p[1])][Moved(p[2])].Weight =
                      frame.entry.outEdges[p[1]][p[2]].Weight


\* C11: no two goroutines are about to access the same field of the store, one
\* of them writing it, with nothing ordering the two accesses.
C11_NoDataRace ==
    \A t \in Threads, u \in Threads :
        (t # u /\ Ready(t) /\ Ready(u))
            => Writing(t) \cap (Reading(u) \cup Writing(u)) = {}

\* C12: a goroutine running EdgesWithVertex that is about to call Edge or
\* Vertex from inside its Edges() iteration can always take that step: the
\* read lock it asks for is granted.
C12_EdgesWithVertexCompletes ==
    \A t \in Threads :
        (/\ threads[t].fn = "EdgesWithVertex"
         /\ threads[t].pc \in {"Edge", "VertexSource", "VertexTarget"})
            => ENABLED ThreadEdgesWithVertexStep(t)

\* Goroutine t's call of fn returns in this step.
Returning(t, fn) ==
    threads[t].fn = fn /\ threads[t].pc # "idle" /\ threads'[t].pc = "idle"

\* C13: on a directed PreventCycles graph called by several goroutines, the
\* stored edges never form a cycle (a -> b and b -> a are never both stored),
\* an AddEdge call returns nil exactly when it has stored its edge, and an
\* AddEdge(b, a) that returns while a -> b is stored returns EdgeCausesCycle.
C13_AddEdgeLinearizable ==
    /\ []Acyclic
    /\ [][\A t \in Threads :
            Returning(t, "AddEdge") =>
              LET a == threads[t].a
                  b == threads[t].b
              IN /\ err' = Nil <=>
                        (<<a, b>> \notin StoredPairs /\ <<a, b>> \in StoredPairs')
                 /\ err' # Nil => UNCHANGED graph
                 /\ (a # b /\ <<b, a>> \in StoredPairs) => err' = "EdgeCausesCycle"]_vars

\* C13's case: a call AddEdge(a, b) has passed the cycle test and holds the
\* lock, about to insert, while another goroutine's AddEdge(b, a) waits at
\* Lock.
C13_Witness ==
    \E t \in Threads, u \in Threads :
        /\ threads[t].fn = "AddEdge" /\ threads[t].pc = "insert"
        /\ threads[u].fn = "AddEdge" /\ threads[u].pc = "Lock"
        /\ threads[t].a # threads[t].b
        /\ threads[u].a = threads[t].b /\ threads[u].b = threads[t].a

\* Goroutine t is inside a loop over one of the store's iterators.
Iterating(t) ==
    /\ threads[t].fn \in {"Vertices", "Edges", "DownstreamNeighbors", "UpstreamNeighbors"}
    /\ threads[t].pc = "yield"

\* C14: while a goroutine is inside a loop over Vertices(), Edges(),
\* DownstreamNeighbors() or UpstreamNeighbors(), no writer holds the lock, no
\* step changes the store, what the iterator has to yield is what it had when
\* it started, and everything it has yielded is part of that.
C14_IterationSeesOneState ==
    /\ [](\A t \in Threads :
            Iterating(t) =>
              /\ ~mu.writer
              /\ threads[t].rest = Yields(threads[t].fn, threads[t].a)
              /\ \A i \in 1..2 : threads[t].got[i] \subseteq threads[t].rest[i])
    /\ [][(\E t \in Threads : Iterating(t)) => UNCHANGED store]_vars

\* C14's case: a goroutine has consumed part of an iteration and has more to
\* come, while another goroutine's mutating call waits at Lock.
C14_Witness ==
    \E t \in Threads, u \in Threads :
        /\ Iterating(t)
        /\ threads[t].got[1] # {}
        /\ threads[t].rest[1] \ threads[t].got[1] # {}
        /\ threads[u].pc = "Lock"

\* C15: if a stored edge has a non-zero weight the traits say the edges are
\* weighted, and if a stored vertex has a non-zero weight the traits say the
\* vertices are weighted.
C15_WeightedFlagsFollowWeights ==
    /\ (\E e \in Edges : e.Weight # 0) => traits.IsEdgesWeighted
    /\ (\E k \in DOMAIN vertices : vertices[k].Weight # 0) => traits.IsVerticesWeighted

\* The caller has the adjacency map and the predecessor map of the undirected
\* graph as it stands.
HasBothMaps ==
    /\ pc = "returned" /\ frame.fn = "PredecessorMap"
    /\ ~traits.IsDirected

Wanted(name, k) ==
    IF ~traits.IsDirected THEN {e \in Edges : k \in {e.Source, e.Target}}
    ELSE IF name \in {"DownstreamNeighbors", "graph.DownstreamNeighbors"}
    THEN {e \in Edges : e.Source = k}
    ELSE {e \in Edges : e.Target = k}

\* An edge as far as the claim tells edges apart: its endpoints, ordered in a
\* directed graph, and its weight.
Logical(e) ==
    [ends |-> IF traits.IsDirected THEN <<e.Source, e.Target>> ELSE {e.Source, e.Target},
     Weight |-> e.Weight]

\* C17: a neighbor iterator of k, the store's or the generic one, consumed to
\* its end, has yielded the edges leaving k (DownstreamNeighbors), entering k
\* (UpstreamNeighbors) or, undirected, incident to k: each of them once and
\* nothing else.
C17_NeighborsOfK ==
    (/\ pc = "returned"
     /\ frame.fn \in {"DownstreamNeighbors", "UpstreamNeighbors",
                      "graph.DownstreamNeighbors", "graph.UpstreamNeighbors"})
    => LET first == frame.yielded[1]
           second == frame.yielded[2]
       IN /\ first \cap second = {}
          /\ Cardinality(first \cup second) = Cardinality(Wanted(frame.fn, frame.key))
          /\ {Logical(e) : e \in first \cup second}
                = {Logical(e) : e \in Wanted(frame.fn, frame.key)}

AnsweredCycle == pc = "returned" /\ frame.fn \in {"CreatesCycle", "graph.CreatesCycle"}

Sorted ==
    /\ pc = "returned"
    /\ frame.fn \in {"TopologicalSort", "StableTopologicalSort"}
    /\ frame.complete

\* C19: the sequence TopologicalSort or StableTopologicalSort yields for the
\* predecessor map of an acyclic directed graph holds every vertex exactly
\* once and, for every edge (u,v), u before v.
C19_SortIsTopological ==
    (Sorted /\ Acyclic)
    => LET order == frame.order
           pos(k) == CHOOSE i \in DOMAIN order : order[i] = k
       IN /\ {order[i] : i \in DOMAIN order} = DOMAIN vertices
          /\ Len(order) = Cardinality(DOMAIN vertices)
          /\ \A p \in StoredPairs : pos(p[1]) < pos(p[2])

\* A sort has run to its end on a graph where one vertex has two
\* predecessors, one of them the predecessor of the other.
C19_Witness ==
    /\ Sorted
    /\ Acyclic
    /\ \E u \in Keys, v \in Keys, w \in Keys :
          {<<u, v>>, <<v, w>>, <<u, w>>} \subseteq StoredPairs

\* C20: TopologicalSort on the predecessor map of a directed graph with a
\* cycle ends with a cycle-detected error item and yields no vertex of a
\* cycle.
C20_SortReportsCycle ==
    (Sorted /\ frame.fn = "TopologicalSort" /\ ~Acyclic)
    => /\ frame.err # Nil
       /\ \A i \in DOMAIN frame.order : ~Reaches(frame.order[i], frame.order[i])

\* The sequence a finished sort has yielded holds every vertex exactly once.
YieldsEveryVertexOnce ==
    /\ {frame.order[i] : i \in DOMAIN frame.order} = DOMAIN vertices
    /\ Len(frame.order) = Cardinality(DOMAIN vertices)

\* The sort with the comparator a < b is at a turn where nothing is queued
\* and vertices are left in the map.
Blocked ==
    /\ pc = "sort"
    /\ frame.fn = "StableTopologicalSort"
    /\ frame.queue = <<>>
    /\ DOMAIN frame.predecessorMap # {}

\* C21: StableTopologicalSort with a comparator reports nothing on a cyclic
\* graph and yields every vertex exactly once; at a turn where nothing is
\* queued it yields the vertex left with the fewest remaining predecessors,
\* the least by the comparator among equals.
C21_StablePicksLeastBlocked ==
    /\ []((Sorted /\ frame.fn = "StableTopologicalSort")
            => (frame.err = Nil /\ YieldsEveryVertexOnce))
    /\ [][Blocked =>
            LET m == frame.predecessorMap
                count(w) == Cardinality(DOMAIN m[w])
                v == frame'.order[Len(frame'.order)]
            IN /\ v \in DOMAIN m
               /\ \A w \in (DOMAIN m) \ {v} :
                     \/ count(v) < count(w)
                     \/ count(v) = count(w) /\ v < w]_vars

\* C22: two runs of StableTopologicalSort with a < b on the predecessor map
\* of the same graph, each consumed to its end, yield the same sequence,
\* whatever order the maps are ranged over.
C22_StableSortDeterministic ==
    (Sorted /\ "first" \in DOMAIN frame) => frame.order = frame.first

\* The vertices a path of one or more entries of the relation map m leads to
\* from the vertices of frontier.
RECURSIVE closureOver(_, _, _)
closureOver(m, frontier, seen) ==
    IF frontier \subseteq seen THEN seen
    ELSE closureOver(m, UNION {DOMAIN m[k] : k \in frontier \cap DOMAIN m},
                     seen \cup frontier)

reachesOver(m, a, b) == a \in DOMAIN m /\ b \in closureOver(m, DOMAIN m[a], {})

Reduced == pc = "returned" /\ frame.fn = "TransitiveReduction"

\* C23: TransitiveReduction on a directed acyclic graph leaves the vertex
\* set as it was, stores no edge that was not stored, and v is reachable
\* from u afterwards exactly when it was before.
C23_ReductionPreservesReachability ==
    LET before == frame.adjacencyMap
    IN (Reduced /\ \A k \in DOMAIN before : ~reachesOver(before, k, k))
       => /\ DOMAIN vertices = DOMAIN before
          /\ \A p \in StoredPairs : p[2] \in DOMAIN before[p[1]]
          /\ \A u \in DOMAIN before, v \in DOMAIN before :
                Reaches(u, v) <=> reachesOver(before, u, v)

\* A reduction has removed an edge.
C23_Witness ==
    /\ Reduced
    /\ frame.err = Nil
    /\ \E u \in DOMAIN vertices, v \in DOMAIN vertices :
          /\ v \in DOMAIN frame.adjacencyMap[u]
          /\ <<u, v>> \notin StoredPairs
          /\ Reaches(u, v)

\* C24: TransitiveReduction returns the cycle error exactly when the graph
\* it was called on holds a directed cycle.
C24_ReductionFailsOnCyclesOnly ==
    LET before == frame.adjacencyMap
    IN Reduced => (frame.err # Nil <=> \E k \in DOMAIN before : reachesOver(before, k, k))

\* C25: the components StronglyConnectedComponents returns for a directed
\* graph partition its vertices, whatever the keys are, the zero key
\* included: no component is empty, every vertex is in exactly one, and two
\* vertices share a component exactly when each reaches the other.
C25_ComponentsPartitionVertices ==
    (pc = "returned" /\ frame.fn = "StronglyConnectedComponents")
    => LET components == frame.components
           members(i) == {components[i][j] : j \in DOMAIN components[i]}
       IN /\ ~frame.hangs
          /\ \A i \in DOMAIN components :
                /\ components[i] # <<>>
                /\ Len(components[i]) = Cardinality(members(i))
          /\ \A k \in DOMAIN vertices :
                Cardinality({i \in DOMAIN components : k \in members(i)}) = 1
          /\ \A i \in DOMAIN components : members(i) \subseteq DOMAIN vertices
          /\ \A u \in DOMAIN vertices, v \in DOMAIN vertices :
                u # v => ((\E i \in DOMAIN components : {u, v} \subseteq members(i))
                            <=> (Reaches(u, v) /\ Reaches(v, u)))

----------------------------------------------------------------------------
\* Shortest paths, measured against the stored edges themselves.

\* An edge is stored that leads from a to b; on an undirected graph an edge
\* leads both ways.
leads(a, b) ==
    /\ a \in DOMAIN outEdges /\ b \in DOMAIN outEdges
    /\ \/ b \in DOMAIN outEdges[a]
       \/ ~traits.IsDirected /\ a \in DOMAIN outEdges[b]

\* The cost of going from a to b: the weight of the edge, or 1 when edges
\* are unweighted, plus the weight of b when vertices are weighted.
stepCost(a, b) ==
    LET e == IF b \in DOMAIN outEdges[a] THEN outEdges[a][b] ELSE outEdges[b][a]
    IN (IF traits.IsEdgesWeighted THEN e.Weight ELSE 1)
       + (IF traits.IsVerticesWeighted THEN vertices[b].Weight ELSE 0)

RECURSIVE costFrom(_, _)
costFrom(path, i) ==
    IF i >= Len(path) THEN 0 ELSE stepCost(path[i], path[i + 1]) + costFrom(path, i + 1)
totalCost(path) == costFrom(path, 1)

\* path goes from source to target along stored edges.
IsPathBetween(path, source, target) ==
    /\ Len(path) >= 1
    /\ path[1] = source /\ path[Len(path)] = target
    /\ \A i \in 1..(Len(path) - 1) : leads(path[i], path[i + 1])

\* The paths from source to target that pass no vertex twice; with weights
\* that are not negative one of them is a cheapest path.
SimplePathsBetween(source, target) ==
    {path \in UNION {[1..n -> DOMAIN vertices] : n \in 1..Cardinality(DOMAIN vertices)} :
        /\ IsPathBetween(path, source, target)
        /\ \A i, j \in DOMAIN path : i # j => path[i] # path[j]}

Answered(name) == pc = "returned" /\ frame.fn = name

ShortestPathFunctions == {"ShortestPath", "DijkstraShortestPath", "BellmanFordShortestPath"}

----------------------------------------------------------------------------
\* Spanning trees, measured against the stored edges of the source.

\* The vertices joined to those of frontier by the pairs of F, taken both ways.
RECURSIVE joinedTo(_, _, _)
joinedTo(F, frontier, seen) ==
    IF frontier = {} THEN seen
    ELSE LET next == {b \in DOMAIN vertices :
                        \E a \in frontier : <<a, b>> \in F \/ <<b, a>> \in F}
         IN joinedTo(F, next \ (seen \cup frontier), seen \cup frontier)

componentsOf(F) == {joinedTo(F, {a}, {}) : a \in DOMAIN vertices}

\* F is a spanning forest of the source: it joins what the stored edges join
\* and has no cycle, that is one edge fewer than vertices in each component.
IsSpanningForest(F) ==
    /\ F \subseteq StoredPairs
    /\ componentsOf(F) = componentsOf(StoredPairs)
    /\ Cardinality(F) = Cardinality(DOMAIN vertices) - Cardinality(componentsOf(F))

RECURSIVE weightOf(_)
weightOf(F) ==
    IF F = {} THEN 0
    ELSE LET p == CHOOSE p \in F : TRUE
         IN outEdges[p[1]][p[2]].Weight + weightOf(F \ {p})

\* The stored pairs of the source that the destination holds an edge for.
destinationPairs(mst) ==
    {p \in StoredPairs : \/ p[2] \in DOMAIN mst.outEdges[p[1]]
                         \/ p[1] \in DOMAIN mst.outEdges[p[2]]}

\* The edges of the destination, each an edge of the source with its weight.
destinationEdges(mst) ==
    UNION {{mst.outEdges[a][b] : b \in DOMAIN mst.outEdges[a]} : a \in DOMAIN mst.outEdges}

\* C29: MinimumSpanningTree on an undirected source and an empty destination
\* leaves the destination with every vertex of the source and with |V| - C
\* edges, C the number of connected components of the source; the edges are
\* edges of the source, form a forest without a cycle that joins what the
\* source joins, and no spanning forest of the source weighs less (none
\* weighs more for MaximumSpanningTree).
C29_SpanningForestIsOptimal ==
    (pc = "returned" /\ frame.fn \in {"MinimumSpanningTree", "MaximumSpanningTree"}) =>
        LET mst == frame.mst
            F == destinationPairs(mst)
        IN /\ mst.err = Nil
           /\ mst.vertices = vertices
           /\ mst.edgeCount = Cardinality(DOMAIN vertices)
                                - Cardinality(componentsOf(StoredPairs))
           /\ Cardinality(destinationEdges(mst)) = mst.edgeCount
           /\ Cardinality(F) = mst.edgeCount
           /\ \A e \in destinationEdges(mst) : edge(e.Source, e.Target).Weight = e.Weight
           /\ IsSpanningForest(F)
           /\ \A G \in SUBSET StoredPairs :
                 IsSpanningForest(G) =>
                    IF frame.fn = "MinimumSpanningTree"
                    THEN weightOf(F) <= weightOf(G)
                    ELSE weightOf(F) >= weightOf(G)

\* A minimum spanning tree was returned for a source with a cycle, and a
\* spanning forest of the source weighs more than it.
C29_Witness ==
    /\ pc = "returned" /\ frame.fn = "MinimumSpanningTree"
    /\ frame.mst.edgeCount = 2 /\ edgeCount = 3
    /\ \E G \in SUBSET StoredPairs :
          IsSpanningForest(G) /\ weightOf(destinationPairs(frame.mst)) < weightOf(G)

----------------------------------------------------------------------------
\* All paths, measured against the stored edges.

\* The sequences of vertices from start to end along stored edges that pass
\* no vertex twice, but for the one vertex that both begins and ends a path
\* from a vertex to itself; a vertex alone is no path.
SimplePaths(begin, end) ==
    {path \in UNION {[1..n -> DOMAIN vertices] : n \in 2..(Cardinality(DOMAIN vertices) + 1)} :
        /\ IsPathBetween(path, begin, end)
        /\ \A i, j \in DOMAIN path :
              (i < j /\ path[i] = path[j]) => (i = 1 /\ j = Len(path))}

\* C30: the paths AllPathsBetween(g, start, end) yields are exactly the
\* simple paths from start to end, each yielded once; a path with start = end
\* begins and ends at that vertex and repeats no other, and the path of the
\* single vertex is not yielded.
C30_AllSimplePathsOnce ==
    (pc = "returned" /\ frame.fn = "AllPathsBetween") =>
        /\ {frame.paths[i] : i \in DOMAIN frame.paths} = SimplePaths(frame.start, frame.end)
        /\ \A i, j \in DOMAIN frame.paths : frame.paths[i] = frame.paths[j] => i = j
        /\ \A i \in DOMAIN frame.paths : Len(frame.paths[i]) > 1

\* The iterator ended after yielding two paths from a vertex back to itself.
C30_Witness ==
    /\ pc = "returned" /\ frame.fn = "AllPathsBetween"
    /\ frame.start = frame.end
    /\ Len(frame.paths) = 2
    /\ \E i \in DOMAIN frame.paths : Len(frame.paths[i]) = 3

----------------------------------------------------------------------------
\* Traversals, measured against the stored edges.

\* The vertices a path of stored edges leads to from those of frontier.
RECURSIVE reachedFrom(_, _)
reachedFrom(frontier, reached) ==
    IF frontier = {} THEN reached
    ELSE LET next == {b \in DOMAIN vertices : \E a \in frontier : leads(a, b)}
         IN reachedFrom(next \ (reached \cup frontier), reached \cup frontier)

Traversing == pc \in {"traverse", "returned"} /\ frame.fn \in {"DFS", "BFS"}
PassDone == pc = "returned" /\ frame.fn \in {"DFS", "BFS"}
keysOf(items) == {items[i].key : i \in DOMAIN items}

\* C31: in the first iteration of DFS(g, start) and of BFS(g, start) no vertex
\* is yielded twice and none that no path leads to from start; an iteration
\* that is not stopped yields every vertex a path leads to from start; when
\* start is not a vertex the iteration yields one item, an error.
C31_TraversalYieldsReachableOnce ==
    (Traversing /\ frame.pass = 1) =>
        IF frame.start \in DOMAIN vertices
        THEN /\ \A i, j \in DOMAIN frame.items : frame.items[i] = frame.items[j] => i = j
             /\ \A i \in DOMAIN frame.items :
                   /\ frame.items[i].err = Nil
                   /\ frame.items[i].key \in reachedFrom({frame.start}, {})
             /\ (pc = "returned" /\ ~frame.stopped)
                   => keysOf(frame.items) = reachedFrom({frame.start}, {})
        ELSE /\ Len(frame.items) <= 1
             /\ pc = "returned" => (Len(frame.items) = 1 /\ frame.items[1].err # Nil)

\* A first iteration ended, not stopped, on a graph with a cycle, having
\* yielded three vertices.
C31_Witness ==
    /\ PassDone /\ frame.pass = 1 /\ ~frame.stopped
    /\ Len(frame.items) = 3
    /\ \E a \in DOMAIN vertices : \E b \in DOMAIN vertices \ {a} :
          b \in reachedFrom({a}, {}) /\ a \in reachedFrom({b}, {})

\* C32: a second iteration of the value DFS or BFS returned, when it is not
\* stopped, yields again what the first iteration yielded, from the beginning:
\* it starts with the same item and yields every item of the first.
C32_SecondPassRepeatsFirst ==
    (PassDone /\ frame.pass = 2 /\ ~frame.stopped) =>
        /\ keysOf(frame.first) \subseteq keysOf(frame.items)
        /\ frame.first # <<>> => (frame.items # <<>> /\ frame.items[1] = frame.first[1])

----------------------------------------------------------------------------
\* Walk, measured against the stored edges.

Walking == pc \in {"walk", "returned"} /\ frame.fn = "Walk"
Walked == pc = "returned" /\ frame.fn = "Walk"

\* An edge is stored from a to b.
storedEdge(a, b) == a \in DOMAIN outEdges /\ b \in DOMAIN outEdges[a]

\* The sequences of two or more vertices from begin that pass no vertex
\* twice and whose steps all satisfy step.
SimplePathsFrom(begin, step(_, _)) ==
    {path \in UNION {[1..n -> DOMAIN vertices] : n \in 2..Cardinality(DOMAIN vertices)} :
        /\ path[1] = begin
        /\ \A i, j \in DOMAIN path : i # j => path[i] # path[j]
        /\ \A i \in 1..(Len(path) - 1) : step(path[i], path[i + 1])}

IsProperPrefix(p, q) == Len(p) < Len(q) /\ SubSeq(q, 1, Len(p)) = p

\* The paths the walk has pending or can come to have pending: those along
\* the stored edges, forwards for down and backwards for up.
PendingPaths ==
    LET step(a, b) == IF frame.dir = "down" THEN storedEdge(a, b) ELSE storedEdge(b, a)
    IN SimplePathsFrom(frame.start, step)

\* C33: once the visitor has returned SkipAll no further call of it is made
\* and Walk returns nil; once it has returned SkipPath for a path no later call
\* gets a path that extends it; and a walk that ends without SkipAll has
\* called the visitor for every other path: for the paths of two vertices and
\* for the extensions of every path it was called for without SkipPath.
C33_WalkHonoursControlCodes ==
    Walking =>
        LET calls == frame.calls
            visited == {calls[i].path : i \in DOMAIN calls}
            skippedPaths == {calls[i].path : i \in {i \in DOMAIN calls : calls[i].nerr = "SkipPath"}}
        IN /\ \A i \in DOMAIN calls :
                 calls[i].nerr = "SkipAll"
                    => (i = Len(calls) /\ pc = "returned" /\ frame.result = Nil /\ err = Nil)
           /\ \A i, j \in DOMAIN calls :
                 (i < j /\ calls[i].nerr = "SkipPath")
                    => ~IsProperPrefix(calls[i].path, calls[j].path)
           /\ (pc = "returned" /\ \A i \in DOMAIN calls : calls[i].nerr # "SkipAll")
                 => \A path \in PendingPaths :
                       path \in visited
                          <=> \/ Len(path) = 2
                              \/ LET parent == SubSeq(path, 1, Len(path) - 1)
                                 IN parent \in visited /\ parent \notin skippedPaths

\* A walk ended that was told SkipPath for a path that has an extension, and
\* was called for another path after it.
C33_Witness ==
    /\ Walked
    /\ \E i \in DOMAIN frame.calls :
          /\ frame.calls[i].nerr = "SkipPath"
          /\ i < Len(frame.calls)
          /\ \E path \in PendingPaths : IsProperPrefix(frame.calls[i].path, path)

\* C34: with a visitor that always returns nil, Walk calls the visitor for no
\* path twice and only for paths from start that pass no vertex twice and
\* follow the edges in the chosen direction (an edge of an undirected graph
\* leading both ways), and it returns having called it for every such path.
C34_WalkVisitsSimplePathsOnce ==
    (Walking /\ \A i \in DOMAIN frame.calls : frame.calls[i].nerr = Nil) =>
        LET step(a, b) == IF frame.dir = "down" THEN leads(a, b) ELSE leads(b, a)
            visited == {frame.calls[i].path : i \in DOMAIN frame.calls}
        IN /\ \A i, j \in DOMAIN frame.calls :
                 frame.calls[i].path = frame.calls[j].path => i = j
           /\ visited \subseteq SimplePathsFrom(frame.start, step)
           /\ pc = "returned" => visited = SimplePathsFrom(frame.start, step)

\* The same on directed graphs only.
C34_OnDirectedGraphs == traits.IsDirected => C34_WalkVisitsSimplePathsOnce

----------------------------------------------------------------------------
\* C35: for every graph, directed or undirected, and every start and end, the
\* store's AllPathsBetween(start, end) yields the same set of paths as the
\* generic AllPathsBetween(g, start, end) over AdjacencyMap().
C35_SpecialisedPathsAgree ==
    (pc = "returned" /\ frame.fn = "AllPathsBetween" /\ "specialised" \in DOMAIN frame) =>
        {frame.specialised[i] : i \in DOMAIN frame.specialised}
            = {frame.paths[i] : i \in DOMAIN frame.paths}

\* The same on directed graphs only.
C35_OnDirectedGraphs == traits.IsDirected => C35_SpecialisedPathsAgree

----------------------------------------------------------------------------
\* C36: an AddVertex that returns VertexAlreadyExists and an AddEdge that
\* returns VertexNotFound, EdgeAlreadyExists or EdgeCausesCycle leave the
\* vertices, the edges, the size and the traits as they were, whatever weight
\* the call carried.
C36_RejectedAddChangesNothing ==
    [][(op' \in {"AddVertex", "AddEdge"} /\ err' # Nil) => UNCHANGED store]_vars

\* The same for the vertices, the edges and the size, the traits left out.
C36_RejectedAddKeepsGraph ==
    [][(op' \in {"AddVertex", "AddEdge"} /\ err' # Nil) => UNCHANGED graph]_vars

\* C37: what Vertex() returned is a copy: whatever the caller does to it,
\* inserting into its Attributes map included, a later Vertex() of the same key
\* returns what the first one returned.
C37_ReadsAreCopies ==
    frame.fn = "VertexAgain" => frame.second = frame.first

\* The same for the value and the weight, the attributes left out.
C37_ValueAndWeightAreCopied ==
    frame.fn = "VertexAgain" =>
        /\ frame.second.Value = frame.first.Value
        /\ frame.second.Weight = frame.first.Weight

\* The same for callers that insert nothing into the map of the copy.
C37_UntouchedMapReadsTheSame ==
    (frame.fn = "VertexAgain" /\ ~frame.inserted) => frame.second = frame.first

\* The batches whose items have different keys: the ones for which adding the
\* items one by one succeeds when the batch does.
keysDiffer(values) ==
    \A i, j \in 1..Len(values) : Hash(values[i].Value) = Hash(values[j].Value) => i = j

\* C38: after a successful AddVertices(values), the vertex stored under the key
\* of each item has the item's properties, as AddVertex with those properties
\* would have stored it.
C38_BatchKeepsProperties ==
    [][\A values \in Batches(WeightedVertices(Keys)) :
          (keysDiffer(values) /\ TopLevel /\ AddVertices(values) /\ err' = Nil)
          => \A i \in 1..Len(values) :
                /\ Hash(values[i].Value) \in DOMAIN vertices'
                /\ vertices'[Hash(values[i].Value)] = values[i]]_vars

\* The same for the values of the items, the properties left out.
C38_BatchStoresValues ==
    [][\A values \in Batches(WeightedVertices(Keys)) :
          (keysDiffer(values) /\ TopLevel /\ AddVertices(values) /\ err' = Nil)
          => \A i \in 1..Len(values) :
                /\ Hash(values[i].Value) \in DOMAIN vertices'
                /\ vertices'[Hash(values[i].Value)].Value = values[i].Value]_vars

\* C39: for a path of the graph, PathWeight returns no error and the cost the
\* shortest-path algorithms minimise: the sum, over every two consecutive keys
\* of the path, of the weight of the edge (1 on a graph without edge weights)
\* and, on a graph with vertex weights, the weight of the second key.
C39_PathWeightIsTheCost ==
    (/\ Answered("PathWeight")
     /\ Len(frame.path) >= 1
     /\ IsPathBetween(frame.path, frame.path[1], frame.path[Len(frame.path)]))
    => /\ frame.result.err = Nil
       /\ frame.result.weight = totalCost(frame.path)

\* The same for the path without its last key.
C39_PathWeightIsTheCostButLast ==
    (/\ Answered("PathWeight")
     /\ Len(frame.path) >= 2
     /\ IsPathBetween(frame.path, frame.path[1], frame.path[Len(frame.path)]))
    => /\ frame.result.err = Nil
       /\ frame.result.weight = totalCost(SubSeq(frame.path, 1, Len(frame.path) - 1))

\* The stored edges make a forest: no edge from a key to itself, no pair
\* stored in both orientations, and one edge fewer than vertices in each
\* component.
IsForest ==
    /\ \A p \in StoredPairs : p[1] # p[2] /\ <<p[2], p[1]>> \notin StoredPairs
    /\ Cardinality(StoredPairs)
          = Cardinality(DOMAIN vertices) - Cardinality(componentsOf(StoredPairs))

\* s and t are stored and a path of stored edges, taken in either orientation,
\* joins them.
connected(s, t) ==
    s \in DOMAIN vertices /\ t \in DOMAIN vertices /\ t \in joinedTo(StoredPairs, {s}, {})

============================================================================
